---- MODULE Spec2Model ----
(***************************************************************************)
(* Session store (src/src/stores/auth.ts) of the shop back-office client:  *)
(* the bearer token, the identity decoded from its claims, the persisted   *)
(* token slot and the authenticated request helper.                        *)
(*                                                                         *)
(* Representation.                                                         *)
(*  - A token string is held as the sequence of its '.'-separated          *)
(*    segments, i.e. as the value of token.split('.'): the empty string is *)
(*    <<"">>, "a.b.c" is <<"a","b","c">>.  null is the empty sequence.      *)
(*  - An optional value (user, error, an undefined property) is a sequence *)
(*    of length at most one.                                               *)
(*  - A JSON scalar is a record [t, s, n]; a parsed JSON document is a      *)
(*    record [kind, obj, num].                                             *)
(***************************************************************************)
EXTENDS Integers, Sequences, FiniteSets, TLC

(***************************************************************************)
(* Bounds of the model.                                                    *)
(***************************************************************************)
MaxInFlight == 2
MaxSegments == 3
MaxClaimKeys == 2
MaxInitHeaders == 2
MaxPathLen == 4
MaxBaseLen == 2

NULL == <<>>
None == <<>>
Some(v) == <<v>>

(***************************************************************************)
(* Claim-key alias lists, auth.ts lines 24-40.                             *)
(***************************************************************************)
XmlRole == "http://schemas.microsoft.com/ws/2008/06/identity/claims/role"
XmlName == "http://schemas.xmlsoap.org/ws/2005/05/identity/claims/name"
XmlEmail == "http://schemas.xmlsoap.org/ws/2005/05/identity/claims/emailaddress"

ROLE_CLAIM_KEYS == <<"role", XmlRole>>
NAME_CLAIM_KEYS == <<"displayName", "name", XmlName, "unique_name", "sub">>
EMAIL_CLAIM_KEYS == <<"email", XmlEmail, XmlName>>
ID_CLAIM_KEYS == <<"id">>

(***************************************************************************)
(* JSON values.                                                            *)
(***************************************************************************)
JStr(s) == [t |-> "str", s |-> s, n |-> 0]
JNum(n) == [t |-> "num", s |-> "", n |-> n]
JNull == [t |-> "null", s |-> "", n |-> 0]
\* A JSON number literal beyond the double range (1e999) parses to Infinity.
JInf == [t |-> "inf", s |-> "", n |-> 0]

EmptyObj == [k \in {} |-> JNull]
DocObject(f) == [kind |-> "object", obj |-> f, num |-> 0]
DocNull == [kind |-> "null", obj |-> EmptyObj, num |-> 0]
DocNumber(n) == [kind |-> "number", obj |-> EmptyObj, num |-> n]

\* String(value) of a JSON scalar.
JsString(v) ==
  CASE v.t = "str" -> v.s
    [] v.t = "num" -> ToString(v.n)
    [] v.t = "inf" -> "Infinity"
    [] OTHER -> "null"

\* !claims : null, 0 (and undefined) are falsy; objects and other numbers are not.
Falsy(doc) == doc.kind = "null" \/ (doc.kind = "number" /\ doc.num = 0)

\* claims[key] : the property, or undefined (None) when there is none.
Prop(doc, key) ==
  IF doc.kind = "object" /\ key \in DOMAIN doc.obj THEN Some(doc.obj[key]) ELSE None

(***************************************************************************)
(* Number.parseInt(string, 10) over the characters of the string.          *)
(***************************************************************************)
Digits == <<"0", "1", "2", "3", "4", "5", "6", "7", "8", "9">>
IsDigit(c) == \E d \in 1..10 : Digits[d] = c
DigitVal(c) == (CHOOSE d \in 1..10 : Digits[d] = c) - 1
IsSpace(c) == c = " "

\* The characters of the strings that occur as id values.
Chars(s) ==
  CASE s = "42" -> <<"4", "2">>
    [] s = "7" -> <<"7">>
    [] s = "0" -> <<"0">>
    [] s = "1" -> <<"1">>
    [] s = "5" -> <<"5">>
    [] s = "1001" -> <<"1", "0", "0", "1">>
    [] s = "12abc" -> <<"1", "2", "a", "b", "c">>
    [] s = " 9" -> <<" ", "9">>
    [] s = "-5" -> <<"-", "5">>
    [] s = "abc" -> <<"a", "b", "c">>
    [] s = "Infinity" -> <<"I", "n", "f", "i", "n", "i", "t", "y">>
    [] s = "" -> <<>>
    [] OTHER -> <<"?">>

NaN == [nan |-> TRUE, n |-> 0]
Num(n) == [nan |-> FALSE, n |-> n]

RECURSIVE SkipSpaces(_)
SkipSpaces(cs) ==
  IF cs # <<>> /\ IsSpace(Head(cs)) THEN SkipSpaces(Tail(cs)) ELSE cs

\* The value of the longest prefix of digits of cs, continuing from acc;
\* seen tells whether a digit was read.
RECURSIVE ReadDigits(_, _, _)
ReadDigits(cs, acc, seen) ==
  IF cs # <<>> /\ IsDigit(Head(cs))
    THEN ReadDigits(Tail(cs), acc * 10 + DigitVal(Head(cs)), TRUE)
    ELSE IF seen THEN Num(acc) ELSE NaN

ParseInt(s) ==
  LET cs == SkipSpaces(Chars(s))
      neg == cs # <<>> /\ Head(cs) = "-"
      body == IF cs # <<>> /\ Head(cs) \in {"-", "+"} THEN Tail(cs) ELSE cs
      r == ReadDigits(body, 0, FALSE)
  IN IF r.nan THEN NaN ELSE Num(IF neg THEN 0 - r.n ELSE r.n)

\* Number.isFinite
IsFinite(x) == ~x.nan

(***************************************************************************)
(* Token segments of the model and what decodeBase64Url makes of them.     *)
(***************************************************************************)
SegHeader == "eyJhbGciOiJIUzI1NiJ9"
SegAdmin == "eyJpZCI6IjQyIiwiZW1haWwiOiJhQGIuY29tIiwicm9sZSI6ImFkbWluIn0"
SegUser == "eyJpZCI6Nywicm9sZSI6InVzZXIiLCJkaXNwbGF5TmFtZSI6IkJvYiJ9"
SegNoId == "eyJlbWFpbCI6ImFAYi5jb20iLCJyb2xlIjoiYWRtaW4ifQ"
SegBadId == "eyJpZCI6ImFiYyIsInJvbGUiOiJhZG1pbiJ9"
SegUrlSafe == "eyJpZCI6IjEiLCJzdWIiOiI_Pn4ifQ"
SegEmptyObj == "e30"
SegJsonNull == "bnVsbA"
SegJsonNumber == "NDI"
SegNotJson == "bm90anNvbg"
SegBadChars == "!bad!"
SegBadLength == "x"
SegSignature == "sig"

Segments ==
  { "", SegHeader, SegAdmin, SegUser, SegNoId, SegBadId, SegUrlSafe, SegEmptyObj,
    SegJsonNull, SegJsonNumber, SegNotJson, SegBadChars, SegBadLength, SegSignature }

Threw == [threw |-> TRUE, text |-> "", doc |-> DocNull]
Text(s) == [threw |-> FALSE, text |-> s, doc |-> DocNull]
Doc(d) == [threw |-> FALSE, text |-> "", doc |-> d]

\* '-' -> '+', '_' -> '/', '=' padding, atob, non-fatal UTF-8 decoding: the text
\* of the segment, or the exception atob throws.
DecodeBase64Url(value) ==
  CASE value = SegHeader -> Text("{\"alg\":\"HS256\"}")
    [] value = SegAdmin -> Text("{\"id\":\"42\",\"email\":\"a@b.com\",\"role\":\"admin\"}")
    [] value = SegUser -> Text("{\"id\":7,\"role\":\"user\",\"displayName\":\"Bob\"}")
    [] value = SegNoId -> Text("{\"email\":\"a@b.com\",\"role\":\"admin\"}")
    [] value = SegBadId -> Text("{\"id\":\"abc\",\"role\":\"admin\"}")
    [] value = SegUrlSafe -> Text("{\"id\":\"1\",\"sub\":\"?>~\"}")
    [] value = SegEmptyObj -> Text("{}")
    [] value = SegJsonNull -> Text("null")
    [] value = SegJsonNumber -> Text("42")
    [] value = SegNotJson -> Text("notjson")
    [] value = SegSignature -> Text("\\uFFFD(")
    [] value = "" -> Text("")
    [] OTHER -> Threw

\* JSON.parse: the document, or the SyntaxError it throws.
JsonParse(text) ==
  CASE text = "{\"alg\":\"HS256\"}" -> Doc(DocObject([k \in {"alg"} |-> JStr("HS256")]))
    [] text = "{\"id\":\"42\",\"email\":\"a@b.com\",\"role\":\"admin\"}" ->
         Doc(DocObject([k \in {"id", "email", "role"} |->
               CASE k = "id" -> JStr("42") [] k = "email" -> JStr("a@b.com")
                 [] OTHER -> JStr("admin")]))
    [] text = "{\"id\":7,\"role\":\"user\",\"displayName\":\"Bob\"}" ->
         Doc(DocObject([k \in {"id", "role", "displayName"} |->
               CASE k = "id" -> JNum(7) [] k = "role" -> JStr("user")
                 [] OTHER -> JStr("Bob")]))
    [] text = "{\"email\":\"a@b.com\",\"role\":\"admin\"}" ->
         Doc(DocObject([k \in {"email", "role"} |->
               IF k = "email" THEN JStr("a@b.com") ELSE JStr("admin")]))
    [] text = "{\"id\":\"abc\",\"role\":\"admin\"}" ->
         Doc(DocObject([k \in {"id", "role"} |->
               IF k = "id" THEN JStr("abc") ELSE JStr("admin")]))
    [] text = "{\"id\":\"1\",\"sub\":\"?>~\"}" ->
         Doc(DocObject([k \in {"id", "sub"} |->
               IF k = "id" THEN JStr("1") ELSE JStr("?>~")]))
    [] text = "{}" -> Doc(DocObject(EmptyObj))
    [] text = "null" -> Doc(DocNull)
    [] text = "42" -> Doc(DocNumber(42))
    [] OTHER -> Threw

(***************************************************************************)
(* decodeToken, auth.ts lines 114-132.  The result records whether an      *)
(* exception left the function.                                            *)
(***************************************************************************)
\* The body of the try block (lines 123-128) for a non-empty payload segment.
DecodePayload(payloadSegment) ==
  LET payload == DecodeBase64Url(payloadSegment)
  IN IF payload.threw THEN Threw ELSE JsonParse(payload.text)

\* !token : null and the empty string.
NoToken(token) == token = NULL \/ token = <<"">>

DecodeTokenNoCatch(token) ==
  IF NoToken(token) THEN Doc(DocNull)
  ELSE IF Len(token) < 2 THEN Doc(DocNull)
  ELSE IF token[2] = "" THEN Doc(DocNull)
  ELSE DecodePayload(token[2])

DecodeToken(token) ==
  IF NoToken(token) THEN Doc(DocNull)
  ELSE IF Len(token) < 2 THEN Doc(DocNull)
  ELSE IF token[2] = "" THEN Doc(DocNull)
  ELSE LET r == DecodePayload(token[2]) IN IF r.threw THEN Doc(DocNull) ELSE r

(***************************************************************************)
(* resolveClaim, auth.ts lines 134-145.                                    *)
(***************************************************************************)
RECURSIVE ResolveFrom(_, _, _)
ResolveFrom(claims, keys, i) ==
  IF i > Len(keys) THEN ""
  ELSE LET value == Prop(claims, keys[i])
       IN IF value # None /\ value[1].t # "null"
            THEN JsString(value[1])
            ELSE ResolveFrom(claims, keys, i + 1)

ResolveClaimLastWins(claims, keys) ==
  IF Falsy(claims) THEN ""
  ELSE ResolveFrom(claims, [i \in 1..Len(keys) |-> keys[Len(keys) + 1 - i]], 1)

ResolveClaim(claims, keys) ==
  IF Falsy(claims) THEN "" ELSE ResolveFrom(claims, keys, 1)

(***************************************************************************)
(* extractUserFromClaims, auth.ts lines 147-168.  The id is a JavaScript    *)
(* number, NaN included.                                                   *)
(***************************************************************************)
AuthUser(id, email, role, usersName) ==
  [id |-> id, email |-> email, role |-> role, usersName |-> usersName]

ExtractUserNoFiniteCheck(claims) ==
  IF Falsy(claims) THEN None
  ELSE Some(AuthUser(ParseInt(ResolveClaim(claims, ID_CLAIM_KEYS)),
                     ResolveClaim(claims, EMAIL_CLAIM_KEYS),
                     ResolveClaim(claims, ROLE_CLAIM_KEYS),
                     ResolveClaim(claims, NAME_CLAIM_KEYS)))

ExtractUserFromClaims(claims) ==
  IF Falsy(claims) THEN None
  ELSE LET idValue == ResolveClaim(claims, ID_CLAIM_KEYS)
           parsedId == ParseInt(idValue)
       IN IF ~IsFinite(parsedId) THEN None
          ELSE Some(AuthUser(parsedId,
                             ResolveClaim(claims, EMAIL_CLAIM_KEYS),
                             ResolveClaim(claims, ROLE_CLAIM_KEYS),
                             ResolveClaim(claims, NAME_CLAIM_KEYS)))

\* The identity applyToken and initialize derive from a token (lines 173-178,
\* 325-328).
UserOfToken(token) ==
  IF NoToken(token) THEN None ELSE ExtractUserFromClaims(DecodeToken(token).doc)

(***************************************************************************)
(* The Headers object of buildHeaders, auth.ts lines 181-193.  The caller's *)
(* init is a sequence of [name, value] pairs; a Headers object maps the     *)
(* lower-cased name to its value.  A value is [text, bearer]: the values    *)
(* given for the name, which Headers joins with ", ", or the token of a     *)
(* "Bearer <token>" value.                                                  *)
(***************************************************************************)
Lower(name) ==
  CASE name \in {"Accept", "accept", "ACCEPT"} -> "accept"
    [] name \in {"Content-Type", "content-type"} -> "content-type"
    [] name \in {"Authorization", "authorization"} -> "authorization"
    [] name \in {"X-Trace", "x-trace"} -> "x-trace"
    [] OTHER -> name

Literal(values) == [text |-> values, bearer |-> NULL]
Bearer(tok) == [text |-> <<>>, bearer |-> tok]

RECURSIVE ValuesOf(_, _)
\* The values init gives for the lower-cased name n, in order.
ValuesOf(init, n) ==
  IF init = <<>> THEN <<>>
  ELSE IF Lower(Head(init).name) = n
         THEN <<Head(init).value>> \o ValuesOf(Tail(init), n)
         ELSE ValuesOf(Tail(init), n)

\* new Headers(init)
NewHeaders(init) ==
  [n \in {Lower(init[i].name) : i \in 1..Len(init)} |-> Literal(ValuesOf(init, n))]

HeadersHas(headers, name) == Lower(name) \in DOMAIN headers

HeadersSet(headers, name, value) ==
  [n \in DOMAIN headers \cup {Lower(name)} |->
     IF n = Lower(name) THEN value ELSE headers[n]]

BuildHeadersOverwrite(init, tok) ==
  LET h0 == NewHeaders(init)
      h1 == HeadersSet(h0, "Accept", Literal(<<"application/json">>))
      h2 == HeadersSet(h1, "Content-Type", Literal(<<"application/json">>))
  IN IF ~NoToken(tok) THEN HeadersSet(h2, "Authorization", Bearer(tok)) ELSE h2

BuildHeaders(init, tok) ==
  LET h0 == NewHeaders(init)
      h1 == IF ~HeadersHas(h0, "Accept")
              THEN HeadersSet(h0, "Accept", Literal(<<"application/json">>)) ELSE h0
      h2 == IF ~HeadersHas(h1, "Content-Type")
              THEN HeadersSet(h1, "Content-Type", Literal(<<"application/json">>)) ELSE h1
  IN IF ~NoToken(tok) /\ ~HeadersHas(h2, "Authorization")
       THEN HeadersSet(h2, "Authorization", Bearer(tok)) ELSE h2

(***************************************************************************)
(* Server responses and request, auth.ts lines 195-227.                     *)
(***************************************************************************)
TokAdmin == <<SegHeader, SegAdmin, SegSignature>>
TokUser == <<SegHeader, SegUser, SegSignature>>
TokNoId == <<SegHeader, SegNoId, SegSignature>>
TokTwoSegments == <<SegHeader, SegAdmin>>
TokOpaque == <<SegSignature>>
TokEmpty == <<"">>

\* What a 2xx login or register response can carry as its body.
ServerTokens == {TokAdmin, TokUser, TokNoId, TokTwoSegments, TokOpaque, TokEmpty}
\* What an earlier session can have left in the persisted slot.
StoredTokens == {NULL} \cup (ServerTokens \ {TokEmpty})

DefaultErrorMessage == "Ne udalos' vypolnit' zapros"
FetchErrorMessage == "Failed to fetch"
JsonErrorMessage == "Unexpected end of JSON input"

\* A response: net = FALSE means fetch itself rejected.  body.form is
\*   "text"    a body that is not JSON (JSON.parse of it throws),
\*   "string"  a JSON string,   "message"  a JSON object with a message,
\*   "object"  a JSON object without one.
\* body.text is the raw text, body.str the JSON string or the object's message,
\* body.json the JSON.stringify of the parsed body; body.tok is the token a
\* login body spells.
Response(net, ok, ctJson, statusText, form, text, str, json, tok) ==
  [net |-> net, ok |-> ok, ctJson |-> ctJson, statusText |-> statusText,
   body |-> [form |-> form, text |-> text, str |-> str, json |-> json, tok |-> tok]]

NetworkFailure == Response(FALSE, FALSE, FALSE, "", "text", "", "", "", NULL)
NoResponse == Response(FALSE, FALSE, FALSE, "", "none", "", "", "", NULL)

ErrorResponses ==
  { Response(TRUE, FALSE, TRUE, "Unauthorized", "string", "", "Bad credentials",
             "\"Bad credentials\"", NULL),
    Response(TRUE, FALSE, TRUE, "Unauthorized", "message", "", "Invalid password",
             "{\"message\":\"Invalid password\"}", NULL),
    Response(TRUE, FALSE, TRUE, "Unauthorized", "object", "", "",
             "{\"code\":401}", NULL),
    Response(TRUE, FALSE, FALSE, "Unauthorized", "text", "<html>", "", "", NULL),
    Response(TRUE, FALSE, FALSE, "", "text", "", "", "", NULL) }

TokenResponses ==
  { Response(TRUE, TRUE, FALSE, "OK", "text", "", "", "", t) : t \in ServerTokens }
    \cup { Response(TRUE, TRUE, TRUE, "OK", "string", "", "", "", TokAdmin),
           Response(TRUE, TRUE, TRUE, "OK", "text", "", "", "", NULL) }

LogoutResponses ==
  { Response(TRUE, TRUE, FALSE, "OK", "text", "", "", "", NULL),
    Response(TRUE, TRUE, TRUE, "OK", "object", "", "", "{}", NULL) }

AuthResponses == TokenResponses \cup ErrorResponses \cup {NetworkFailure}
LogoutReplies == LogoutResponses \cup ErrorResponses \cup {NetworkFailure}

\* parseErrorMessage, lines 195-208.
ParseErrorMessage(response) ==
  CASE response.body.form = "text" ->
         IF response.statusText # "" THEN response.statusText ELSE DefaultErrorMessage
    [] response.body.form = "string" -> response.body.str
    [] response.body.form = "message" -> response.body.str
    [] OTHER -> response.body.json

Raised(message) == [threw |-> TRUE, message |-> message, value |-> NULL]
Returned(value) == [threw |-> FALSE, message |-> "", value |-> value]

\* request, lines 210-227: what the awaited call gives for a response.  The
\* value is the body as login reads it, a token string.
Request(response) ==
  IF ~response.net THEN Raised(FetchErrorMessage)
  ELSE IF ~response.ok THEN Raised(ParseErrorMessage(response))
  ELSE IF response.ctJson
         THEN IF response.body.form = "text" THEN Raised(JsonErrorMessage)
              ELSE Returned(response.body.tok)
  ELSE Returned(response.body.tok)

(***************************************************************************)
(* Values of the views: rows, options, requests, toasts.                   *)
(* Numbers held by rows are integers; a value that may be NaN is a record  *)
(* [nan, n] as above.                                                      *)
(***************************************************************************)
\* OrderDetailRow, filter.ts lines 80-88.
OrderDetailRow(id, orderId, productId, productName, qty, price, rowSum) ==
  [id |-> id, orderId |-> orderId, productId |-> productId, productName |-> productName,
   qty |-> qty, price |-> price, rowSum |-> rowSum]

NoRow == OrderDetailRow(0, 0, 0, "", 0, 0, 0)

\* ProductOption, filter.ts lines 90-94.
ProductOption(id, label, price) == [id |-> id, label |-> label, price |-> price]

\* OrderHeadModel, filter.ts lines 71-78: the id and the total; totalPrice is
\* optional (null).
OrderHeadModel(id, totalPrice) == [id |-> id, totalPrice |-> totalPrice]

\* Number(value) of what a cell editor hands over as event.newValue.
ToNumber(v) ==
  CASE v.t = "num" -> Num(v.n)
    [] v.t = "null" -> Num(0)
    [] v.t = "str" /\ v.s \in {"", " "} -> Num(0)
    [] v.t = "str" /\ v.s \in {"5", "1", "7", "0", "42"} -> ParseInt(v.s)
    [] OTHER -> NaN

\* A request handed to fetch: method, path, the id in the path or body, the
\* orderId of the body, and the row of the body.
Fetch(method, path, id, orderId, row) ==
  [method |-> method, path |-> path, id |-> id, orderId |-> orderId, row |-> row]

\* toast.add: severity and detail.
Toast(severity, detail) == [severity |-> severity, detail |-> detail]

\* The step just taken by a view: ev names it, fn the handler, rowId the row
\* it concerned, before that row as the edit found it (NoRow if none),
\* requests and toasts what the step issued and showed, in order; events is
\* the number of user events so far, failures the number of order creations
\* that failed so far, created whether one succeeded, newValue the text an
\* inline edit of a list view proposed.
Step(ev, fn, rowId, before, requests, toasts) ==
  [ev |-> ev, fn |-> fn, rowId |-> rowId, before |-> before, requests |-> requests,
   toasts |-> toasts, events |-> 0, failures |-> 0, created |-> FALSE, newValue |-> <<>>]

StepIdle == Step("none", "", 0, NoRow, <<>>, <<>>)

\* A location of the router: the name of the route record it matches ("" when
\* none does), its path and the redirect parameter of its query.
Route(name, path, redirect) == [name |-> name, path |-> path, redirect |-> redirect]

\* The location before the first navigation.
START_LOCATION == Route("", "/", None)

(***************************************************************************)
(* OrderDetailView (src/src/scripts/filter.ts from line 35): its refs and   *)
(* the helpers that read and write them. A view is the record of the refs. *)
(***************************************************************************)
\* The refs as setup leaves them, lines 96-99 and 161-175, for the route's
\* OrderId. detailDialogQty holds 0 for a cleared input (null ?? 0).
\* orderCreationPromise tells whether the slot holds a promise.
View(OrderId) ==
  [OrderId |-> OrderId, order |-> None, details |-> <<>>, loading |-> FALSE,
   errorMessage |-> "", detailDialogVisible |-> FALSE, detailDialogSaving |-> FALSE,
   detailDialogQty |-> 1, dialogMode |-> "create", productOptions |-> <<>>,
   productOptionsLoading |-> FALSE, productOptionsLoaded |-> FALSE,
   selectedProductId |-> None, selectedDetail |-> None, editingDetail |-> None,
   isSaving |-> FALSE, orderCreationPromise |-> FALSE, deletingDetail |-> FALSE]

ViewIdle == View(0)

\* The refs of a list view: the rows, the id of the selected row (optional)
\* and the error banner.
Grid(name, rows, selected) ==
  [name |-> name, rows |-> rows, selected |-> selected, errorMessage |-> ""]

GridIdle == Grid("none", <<>>, None)

\* A call suspended at an await. fn is the function, stage what it awaits,
\* orderId / next / prev / isEdit the locals it resumes with, waiters the
\* callers awaiting orderCreationPromise, then the caller awaiting the call.
Call(fn, stage, orderId, next, prev, isEdit, waiters, then) ==
  [fn |-> fn, stage |-> stage, orderId |-> orderId, next |-> next, prev |-> prev,
   isEdit |-> isEdit, waiters |-> waiters, then |-> then]

\* A caller of ensureOrderCreated suspended at its await: saveOrder (line
\* 1199), or handleSubmitDetail (line 918) with its locals of lines 893-895;
\* product is optional.
Waiter(fn, product, qty, isEdit) ==
  [fn |-> fn, product |-> product, qty |-> qty, isEdit |-> isEdit]

Submitter(product, qty, isEdit) == Waiter("handleSubmitDetail", product, qty, isEdit)
Saver == Waiter("saveOrder", None, 0, FALSE)

\* The locals of handleDetailCellEdit across await ensureProductOptions(),
\* lines 1089-1098.
CellEditor(previousRow, currentRow, nextProductId) ==
  [previousRow |-> previousRow, currentRow |-> currentRow, nextProductId |-> nextProductId]

\* What a handler has done so far within one step.
Fx(v, cs, requests, toasts) == [view |-> v, calls |-> cs, requests |-> requests, toasts |-> toasts]

\* array.findIndex(item => item.id === id), 0 for -1.
IndexOfId(rows, id) ==
  IF \E i \in 1..Len(rows) : rows[i].id = id
    THEN CHOOSE i \in 1..Len(rows) : rows[i].id = id /\ \A j \in 1..(i - 1) : rows[j].id # id
    ELSE 0

\* array.find(item => item.id === id), as an optional value.
FindById(rows, id) ==
  IF IndexOfId(rows, id) = 0 THEN None ELSE Some(rows[IndexOfId(rows, id)])

RECURSIVE SumRowSum(_)
SumRowSum(rows) == IF rows = <<>> THEN 0 ELSE Head(rows).rowSum + SumRowSum(Tail(rows))

\* recalcOrderTotal, lines 655-671.
RecalcOrderTotal(v) ==
  IF v.order = None THEN v
  ELSE [v EXCEPT !.order = Some([v.order[1] EXCEPT !.totalPrice = Some(SumRowSum(v.details))])]

\* applyDetailRowPatch, lines 627-653, for a patch that carries every field.
ApplyDetailRowPatchNoop(v, rowId, patch) == v

ApplyDetailRowPatch(v, rowId, patch) ==
  LET index == IndexOfId(v.details, rowId) IN
  IF index = 0 THEN v
  ELSE RecalcOrderTotal(
         [v EXCEPT !.details = [v.details EXCEPT ![index] = patch],
                   !.selectedDetail =
                     IF v.selectedDetail # None /\ v.selectedDetail[1].id = patch.id
                       THEN Some(patch) ELSE @])

\* selectedProductOption, lines 254-259.
SelectedProductOption(v) ==
  IF v.selectedProductId = None THEN None
  ELSE FindById(v.productOptions, v.selectedProductId[1])

\* detailDialogCanSave, lines 261-269.
DetailDialogCanSave(v) ==
  /\ ~v.detailDialogSaving
  /\ SelectedProductOption(v) # None
  /\ v.detailDialogQty > 0

\* resetDetailDialogState, lines 587-595.
ResetDetailDialogState(v) ==
  IF v.detailDialogSaving THEN v
  ELSE [v EXCEPT !.dialogMode = "create", !.editingDetail = None, !.detailDialogQty = 1,
                 !.selectedProductId =
                   IF Len(v.productOptions) > 0 THEN Some(v.productOptions[1].id) ELSE None]

\* ensureCurrentProductInOptions, lines 597-625.
EnsureCurrentProductInOptions(v) ==
  IF v.selectedProductId = None \/ FindById(v.productOptions, v.selectedProductId[1]) # None
    THEN v
  ELSE LET wanted == v.selectedProductId[1]
           fallback ==
             IF v.editingDetail # None /\ v.editingDetail[1].productId = wanted
               THEN v.editingDetail
             ELSE IF v.selectedDetail # None /\ v.selectedDetail[1].productId = wanted
               THEN v.selectedDetail
             ELSE None
       IN IF fallback = None THEN v
          ELSE [v EXCEPT !.productOptions =
                  Append(@, ProductOption(fallback[1].productId, fallback[1].productName,
                                          fallback[1].price))]

(***************************************************************************)
(* The session store.                                                      *)
(***************************************************************************)
VARIABLES
  token,        \* state.token
  user,         \* state.user
  loading,      \* state.loading
  error,        \* state.error
  initialized,  \* state.initialized
  slot,         \* localStorage['auth_token']
  storageOk,    \* FALSE: every localStorage access throws
  inflight,     \* per operation, the calls awaiting their response
  last,         \* the step just taken and what its caller observed
  probe,        \* the last direct application of a pure helper
  view,         \* the refs of OrderDetailView
  grid,         \* the refs of the list view on screen
  calls,        \* the calls of the view suspended at an await, oldest first
  step,         \* the view's step just taken: requests issued, toasts shown
  route         \* router.currentRoute

state == <<token, user, loading, error, initialized>>
views == <<view, grid, calls, step, route>>
vars ==
  <<token, user, loading, error, initialized, slot, storageOk, inflight, last, probe,
    view, grid, calls, step, route>>

Ops == {"login", "register", "logout"}

RECURSIVE SumOver(_, _)
SumOver(f, S) ==
  IF S = {} THEN 0 ELSE LET x == CHOOSE y \in S : TRUE IN f[x] + SumOver(f, S \ {x})

InFlight == SumOver(inflight, Ops)

NoHeaders == NewHeaders(<<>>)

\* ev: the step; op: the operation; threw, message: whether the call raised to
\* its caller and with what; cause: why; hadToken: whether a token was held
\* when the step began; headers: the headers of the request a start issued;
\* response: the response a return consumed.
Event(ev, op, threw, cause, message, hadToken, headers, response) ==
  [ev |-> ev, op |-> op, threw |-> threw, cause |-> cause, message |-> message,
   hadToken |-> hadToken, headers |-> headers, response |-> response]

\* A direct application of a helper: fn names it, tok / claims / keys / init /
\* base / path are its arguments, done tells whether it has run, and threw /
\* doc / user / text / headers / url hold what it gave.
Probe(fn, tok, claims, keys, init) ==
  [fn |-> fn, done |-> FALSE, tok |-> tok, claims |-> claims, keys |-> keys,
   init |-> init, base |-> <<>>, path |-> <<>>, threw |-> FALSE, doc |-> DocNull,
   user |-> None, text |-> "", headers |-> NoHeaders, url |-> <<>>]

ProbeIdle == Probe("none", NULL, DocNull, <<>>, <<>>)

\* loadStoredToken, lines 50-56.
LoadStoredToken(stored, ok) == IF ok THEN stored ELSE NULL

\* persistToken, lines 58-68: the slot afterwards.
PersistTokenNoRemove(tok, stored, ok) ==
  IF ok /\ ~NoToken(tok) THEN tok ELSE stored

PersistToken(tok, stored, ok) ==
  IF ~ok THEN stored
  ELSE IF ~NoToken(tok) THEN tok
  ELSE NULL

\* persistToken, lines 58-68: whether the call raises to applyToken. Both
\* setItem and removeItem run inside the try, whose catch is empty.
PersistTokenUncaught(tok, ok) == ~ok

PersistTokenRaises(tok, ok) == FALSE

\* What a storage access that throws reports.
StorageErrorMessage == "The operation is insecure."

\* applyToken, lines 170-179.
ApplyTokenKeepUser(tok) ==
  /\ token' = tok
  /\ slot' = PersistToken(tok, slot, storageOk)
  /\ user' = IF NoToken(tok) THEN user ELSE UserOfToken(tok)

ApplyTokenNoPersist(tok) ==
  /\ token' = tok
  /\ slot' = slot
  /\ user' = UserOfToken(tok)

ApplyToken(tok) ==
  /\ token' = tok
  /\ slot' = PersistToken(tok, slot, storageOk)
  /\ user' = IF PersistTokenRaises(tok, storageOk) THEN user ELSE UserOfToken(tok)

\* The state at module load, lines 42-48.
Init ==
  /\ storageOk \in BOOLEAN
  /\ slot \in StoredTokens
  /\ token = LoadStoredToken(slot, storageOk)
  /\ user = None
  /\ loading = FALSE
  /\ error = None
  /\ initialized = FALSE
  /\ inflight = [op \in Ops |-> 0]
  /\ last = Event("load", "", FALSE, "", "", FALSE, NoHeaders, NoResponse)
  /\ probe = ProbeIdle
  /\ view = ViewIdle
  /\ grid = GridIdle
  /\ calls = <<>>
  /\ step = StepIdle
  /\ route = START_LOCATION

\* The synchronous part of login, register and logout up to the fetch: lines
\* 275-276 (290-291, 305-306) and the request built at lines 211-215.
Start(op) ==
  /\ InFlight < MaxInFlight
  /\ loading' = TRUE
  /\ error' = None
  /\ inflight' = [inflight EXCEPT ![op] = @ + 1]
  /\ last' = Event("start", op, FALSE, "", "", ~NoToken(token), BuildHeaders(<<>>, token),
                   NoResponse)
  /\ UNCHANGED <<token, user, initialized, slot, storageOk, probe, views>>

LoginStart == Start("login")
RegisterStart == Start("register")
LogoutStart == Start("logout")

Cause(response) ==
  IF ~response.net THEN "network" ELSE IF ~response.ok THEN "http" ELSE "parse"

\* The rest of login / register once the response is in: loginInternal
\* (lines 229-243) and the try/catch/finally of lines 277-286 (292-301).
AuthReturnKeepToken(op, response) ==
  LET r == Request(response) IN
  /\ inflight[op] > 0
  /\ inflight' = [inflight EXCEPT ![op] = @ - 1]
  /\ IF r.threw
       THEN /\ UNCHANGED <<token, user, slot>>
            /\ error' = Some(r.message)
            /\ last' = Event("return", op, TRUE, Cause(response), r.message,
                             ~NoToken(token), NoHeaders, response)
       ELSE /\ ApplyToken(r.value)
            /\ error' = error
            /\ last' = Event("return", op, FALSE, "", "", ~NoToken(token), NoHeaders, response)
  /\ loading' = FALSE
  /\ initialized' = TRUE
  /\ UNCHANGED <<storageOk, probe, views>>

AuthSettle(op, response) ==
  LET r == Request(response)
      \* applyToken(token) raised inside the try; applyToken(null) raised
      \* inside the catch, before state.error is assigned.
      applyRaised == ~r.threw /\ PersistTokenRaises(r.value, storageOk)
      catchRaised == PersistTokenRaises(NULL, storageOk)
  IN
  /\ inflight[op] > 0
  /\ inflight' = [inflight EXCEPT ![op] = @ - 1]
  /\ IF r.threw \/ applyRaised
       THEN /\ ApplyToken(NULL)
            /\ error' = IF catchRaised THEN error
                        ELSE IF applyRaised THEN Some(StorageErrorMessage)
                        ELSE Some(r.message)
            /\ last' = Event("return", op, TRUE,
                             IF applyRaised \/ catchRaised THEN "storage" ELSE Cause(response),
                             IF applyRaised \/ catchRaised THEN StorageErrorMessage
                             ELSE r.message,
                             ~NoToken(token), NoHeaders, response)
       ELSE /\ ApplyToken(r.value)
            /\ error' = error
            /\ last' = Event("return", op, FALSE, "", "", ~NoToken(token), NoHeaders, response)
  /\ loading' = FALSE
  /\ initialized' = TRUE
  /\ UNCHANGED <<storageOk, probe>>

\* The return when no view is mounted that follows the session.
AuthReturn(op, response) == AuthSettle(op, response) /\ UNCHANGED views

LoginReturn == \E response \in AuthResponses : AuthReturn("login", response)
RegisterReturn == \E response \in AuthResponses : AuthReturn("register", response)

\* The rest of logout: logoutInternal (lines 259-267) and lines 307-315.
LogoutReturnOnSuccessOnly(response) ==
  LET r == Request(response) IN
  /\ inflight["logout"] > 0
  /\ inflight' = [inflight EXCEPT !["logout"] = @ - 1]
  /\ IF r.threw
       THEN /\ UNCHANGED <<token, user, slot>>
            /\ error' = Some(r.message)
            /\ last' = Event("return", "logout", TRUE, Cause(response), r.message,
                             ~NoToken(token), NoHeaders, response)
       ELSE /\ ApplyToken(NULL)
            /\ error' = error
            /\ last' = Event("return", "logout", FALSE, "", "", ~NoToken(token), NoHeaders, response)
  /\ loading' = FALSE
  /\ initialized' = TRUE
  /\ UNCHANGED <<storageOk, probe, views>>

LogoutSettle(response) ==
  LET r == Request(response)
      \* applyToken(null) raised inside the finally of logoutInternal.
      finallyRaised == PersistTokenRaises(NULL, storageOk)
  IN
  /\ inflight["logout"] > 0
  /\ inflight' = [inflight EXCEPT !["logout"] = @ - 1]
  /\ ApplyToken(NULL)
  /\ IF r.threw \/ finallyRaised
       THEN /\ error' = Some(IF finallyRaised THEN StorageErrorMessage ELSE r.message)
            /\ last' = Event("return", "logout", TRUE,
                             IF finallyRaised THEN "storage" ELSE Cause(response),
                             IF finallyRaised THEN StorageErrorMessage ELSE r.message,
                             ~NoToken(token), NoHeaders, response)
       ELSE /\ error' = error
            /\ last' = Event("return", "logout", FALSE, "", "", ~NoToken(token), NoHeaders, response)
  /\ loading' = FALSE
  /\ initialized' = TRUE
  /\ UNCHANGED <<storageOk, probe>>

LogoutReturnWith(response) == LogoutSettle(response) /\ UNCHANGED views

LogoutReturn == \E response \in LogoutReplies : LogoutReturnWith(response)

\* initialize, lines 318-335.
InitializeAlways ==
  /\ error' = None
  /\ user' = IF ~NoToken(token) THEN UserOfToken(token) ELSE user
  /\ loading' = FALSE
  /\ initialized' = TRUE
  /\ last' = Event("initialize", "", FALSE, IF initialized THEN "noop" ELSE "", "",
                   ~NoToken(token), NoHeaders, NoResponse)
  /\ UNCHANGED <<token, slot, storageOk, inflight, probe, views>>

Initialize ==
  /\ IF initialized
       THEN UNCHANGED <<user, loading, error, initialized>>
       ELSE /\ error' = None
            /\ user' = IF ~NoToken(token) THEN UserOfToken(token) ELSE user
            /\ loading' = FALSE
            /\ initialized' = TRUE
  /\ last' = Event("initialize", "", FALSE, IF initialized THEN "noop" ELSE "", "",
                   ~NoToken(token), NoHeaders, NoResponse)
  /\ UNCHANGED <<token, slot, storageOk, inflight, probe, views>>

\* clearError, lines 337-339.
ClearError ==
  /\ error' = None
  /\ last' = Event("clearError", "", FALSE, "", "", ~NoToken(token), NoHeaders, NoResponse)
  /\ UNCHANGED <<token, user, loading, initialized, slot, storageOk, inflight, probe, views>>

Next ==
  \/ LoginStart
  \/ RegisterStart
  \/ LogoutStart
  \/ LoginReturn
  \/ RegisterReturn
  \/ LogoutReturn
  \/ Initialize
  \/ ClearError

Spec == Init /\ [][Next]_vars

(***************************************************************************)
(* Claims about the session store, checked under Spec.                      *)
(***************************************************************************)
AuthReturned == last.ev = "return" /\ last.op \in {"login", "register"}
LogoutReturned == last.ev = "return" /\ last.op = "logout"

\* C1 (as claimed): in every reachable state, from module load onward, user is
\* exactly the identity decoded from token's claims, and absent when the token
\* is absent or undecodable.
C1_UserAlwaysDecodedFromToken == user = UserOfToken(token)

\* C1 (amended): once initialized is true, user is exactly the identity decoded
\* from token's claims (absent when the token is absent or undecodable); until
\* then user is absent whatever token was loaded from storage.
C1_UserDecodedOnceInitialized ==
  /\ initialized => user = UserOfToken(token)
  /\ ~initialized => user = None

\* C1 witness: the persisted token of an administrator has been decoded by
\* initialize.
C1_Witness ==
  /\ last.ev = "initialize"
  /\ initialized
  /\ token = TokAdmin
  /\ user = Some(AuthUser(Num(42), "a@b.com", "admin", ""))

\* What the server's error body says: the JSON string, the message field, the
\* stringified JSON, and for a body that is not JSON the status text.
ServerMessage(response) ==
  CASE response.body.form \in {"string", "message"} -> response.body.str
    [] response.body.form = "object" -> response.body.json
    [] response.statusText # "" -> response.statusText
    [] OTHER -> DefaultErrorMessage

\* C2: when login or register fails with a non-2xx response, on return token and
\* user are absent (whatever token was held), the persisted slot is cleared,
\* error holds the server's message, initialized is true, loading is false and
\* the error is raised to the caller.
C2_FailedLoginClearsSession ==
  (AuthReturned /\ last.response.net /\ ~last.response.ok) =>
    /\ token = NULL
    /\ user = None
    /\ storageOk => slot = NULL
    /\ error = Some(ServerMessage(last.response))
    /\ initialized
    /\ ~loading
    /\ last.threw
    /\ last.message = ServerMessage(last.response)

\* C2 witness: a login failed with 401 and a JSON message while a token was held.
C2_Witness ==
  /\ AuthReturned
  /\ last.op = "login"
  /\ last.cause = "http"
  /\ last.hadToken
  /\ last.response.body.form = "message"
  /\ error = Some("Invalid password")

\* C3 (as claimed): when login or register succeeds, token is the response body,
\* that string is in the persisted slot, user is the identity decoded from it,
\* loading is false and initialized is true.
C3_LoginStoresBody ==
  (AuthReturned /\ ~last.threw) =>
    /\ token = last.response.body.tok
    /\ storageOk => slot = token
    /\ user = UserOfToken(token)
    /\ ~loading
    /\ initialized

\* C3 (amended): when login or register succeeds, token is the response body,
\* a non-empty body is in the persisted slot and an empty body leaves the slot
\* removed, user is the identity decoded from the body, loading is false and
\* initialized is true.
C3_LoginStoresNonEmptyBody ==
  (AuthReturned /\ ~last.threw) =>
    /\ token = last.response.body.tok
    /\ storageOk => slot = (IF token = TokEmpty THEN NULL ELSE token)
    /\ user = UserOfToken(token)
    /\ ~loading
    /\ initialized

\* C3 witness: a register call returned with an administrator's token.
C3_Witness ==
  /\ AuthReturned
  /\ last.op = "register"
  /\ ~last.threw
  /\ storageOk
  /\ slot = TokAdmin
  /\ user # None

\* C4: when logout returns, token and user are absent and the persisted slot is
\* removed, whether the POST succeeded, returned non-2xx or threw; a failure is
\* raised to the caller with the local state already cleared.
C4_LogoutAlwaysClears ==
  LogoutReturned =>
    /\ token = NULL
    /\ user = None
    /\ storageOk => slot = NULL
    /\ ~loading
    /\ initialized
    /\ (~last.response.net \/ ~last.response.ok) =>
         (last.threw /\ error = Some(last.message))
    /\ ~last.response.net => last.message = FetchErrorMessage

\* C4 witness: logout's fetch rejected while a token was held.
C4_Witness ==
  /\ LogoutReturned
  /\ last.cause = "network"
  /\ last.threw
  /\ last.hadToken

\* C5: initialize changes nothing of the session when initialized is already
\* true; otherwise it decodes the token loaded from storage into user, leaves
\* the token and the persisted slot alone, issues no request, and ends with
\* initialized true and loading false.
C5_InitializeIdempotent ==
  [][ last'.ev = "initialize" =>
        /\ token' = token /\ slot' = slot /\ inflight' = inflight
        /\ initialized'
        /\ IF initialized
             THEN UNCHANGED <<user, loading, error, initialized>>
             ELSE /\ token = LoadStoredToken(slot, storageOk)
                  /\ user' = UserOfToken(token)
                  /\ ~loading' ]_vars

\* C5 witness: initialize was called on an initialized session while a call was
\* in flight.
C5_Witness ==
  /\ last.ev = "initialize"
  /\ last.cause = "noop"
  /\ loading
  /\ InFlight > 0
  /\ user # None

\* C6 (as claimed): with working storage the persisted slot equals token after
\* every operation.
C6_SlotEqualsToken == storageOk => slot = token

\* C6 (amended): with working storage the persisted slot equals token whenever
\* token is a non-empty string, and is removed whenever token is null or the
\* empty string.
C6_SlotFollowsToken ==
  storageOk => slot = (IF NoToken(token) THEN NULL ELSE token)

\* C6 witness: a failed login removed the persisted token.
C6_Witness ==
  /\ storageOk
  /\ AuthReturned
  /\ last.threw
  /\ last.hadToken
  /\ slot = NULL
  /\ token = NULL

\* C12: storage failures are swallowed. With every storage access throwing, the
\* session starts with no token, and login, register and logout complete as the
\* response alone decides: they raise exactly when the request failed, never
\* with the storage failure as cause or message; on success token is the
\* response body and user its decoded identity, on failure and on logout both
\* are absent; and error never holds the storage failure.
C12_StorageFailuresSwallowed ==
  ~storageOk =>
    /\ last.ev = "load" => token = NULL
    /\ error # Some(StorageErrorMessage)
    /\ last.ev = "return" =>
         /\ last.threw = Request(last.response).threw
         /\ last.cause # "storage"
         /\ last.message # StorageErrorMessage
         /\ token = (IF last.threw \/ last.op = "logout" THEN NULL
                     ELSE last.response.body.tok)
         /\ user = UserOfToken(token)
         /\ last.threw => error = Some(Request(last.response).message)

\* C12 witness: with storage denied and a token left in the slot that could
\* not be read, a login returned an administrator's token and identity
\* without raising.
C12_Witness ==
  /\ ~storageOk
  /\ slot = TokUser
  /\ AuthReturned
  /\ last.op = "login"
  /\ ~last.threw
  /\ token = TokAdmin
  /\ user = Some(AuthUser(Num(42), "a@b.com", "admin", ""))
  /\ error = None

(***************************************************************************)
(* The helpers applied directly to bounded inputs: decodeToken,             *)
(* resolveClaim, extractUserFromClaims and buildHeaders.                    *)
(***************************************************************************)
\* The sequences over S of length 1..n.
SeqsUpTo(S, n) == UNION {[1..k -> S] : k \in 1..n}

\* Token strings: every sequence of 1..n segments.
TokenInputs(n) == SeqsUpTo(Segments, n)

ClaimKeys ==
  {"id", "email", XmlEmail, XmlName, "role", XmlRole, "displayName", "name",
   "unique_name", "sub", "userId"}

\* The values a claims object of the model can hold under a key.
ValuesFor(key) ==
  CASE key = "id" ->
         {JStr("42"), JNum(7), JNum(0), JNull, JInf, JStr("abc"), JStr("12abc"),
          JStr(" 9"), JStr("-5"), JStr("Infinity"), JStr("")}
    [] key = "email" -> {JStr("a@b.com"), JNull}
    [] key = XmlEmail -> {JStr("x@y.org"), JNull}
    [] key = XmlName -> {JStr("xml-name"), JNull}
    [] key = "role" -> {JStr("admin"), JNull, JStr("")}
    [] key = XmlRole -> {JStr("user"), JNull}
    [] key = "displayName" -> {JStr("Bob"), JNull}
    [] key = "name" -> {JStr("bob"), JNull}
    [] key = "unique_name" -> {JStr("bob1"), JNull}
    [] key = "sub" -> {JNum(1001), JNull}
    [] OTHER -> {JStr("42")}

RECURSIVE ObjectsOver(_)
\* The objects whose keys are exactly K.
ObjectsOver(K) ==
  IF K = {} THEN {EmptyObj}
  ELSE LET k == CHOOSE x \in K : TRUE
       IN {[y \in K |-> IF y = k THEN v ELSE f[y]] :
             f \in ObjectsOver(K \ {k}), v \in ValuesFor(k)}

SampleClaims ==
  DocObject([k \in {"id", "email", "role"} |->
    CASE k = "id" -> JStr("42") [] k = "email" -> JStr("a@b.com") [] OTHER -> JStr("admin")])

\* Parsed payloads: null, numbers, the sample, and every object of at most n keys.
ClaimInputs(n) ==
  {DocNull, DocNumber(0), DocNumber(42), SampleClaims}
    \cup {DocObject(f) :
            f \in UNION {ObjectsOver(K) : K \in {X \in SUBSET ClaimKeys : Cardinality(X) <= n}}}

FieldKeys == {ID_CLAIM_KEYS, EMAIL_CLAIM_KEYS, ROLE_CLAIM_KEYS, NAME_CLAIM_KEYS}

HeaderNames ==
  {"Accept", "accept", "Content-Type", "content-type", "Authorization", "authorization",
   "X-Trace"}
HeaderValues == {"text/plain", "Bearer other"}
\* A caller's headers: at most n [name, value] pairs.
InitInputs(n) ==
  {<<>>} \cup SeqsUpTo({[name |-> h, value |-> v] : h \in HeaderNames, v \in HeaderValues}, n)

\* URLs and paths are sequences of one-character strings, so that startsWith,
\* endsWith, slice and concatenation are computed.
StartsWith(s, p) == Len(s) >= Len(p) /\ SubSeq(s, 1, Len(p)) = p
EndsWith(s, p) == Len(s) >= Len(p) /\ SubSeq(s, Len(s) - Len(p) + 1, Len(s)) = p

\* normalizeBaseUrl, lines 70-81, for API_BASE_URL = base (line 22: an unset
\* BASE_URL is the empty string).
NormalizeBaseUrl(base, path) ==
  IF StartsWith(path, <<"h", "t", "t", "p">>) \/ StartsWith(path, <<"/", "/">>) THEN path
  ELSE IF EndsWith(base, <<"/">>) /\ StartsWith(path, <<"/">>)
    THEN base \o SubSeq(path, 2, Len(path))
  ELSE IF ~EndsWith(base, <<"/">>) /\ ~StartsWith(path, <<"/">>)
    THEN base \o <<"/">> \o path
  ELSE base \o path

ExampleBase == <<"h", "t", "t", "p", "s", ":", "/", "/", "a", "p", "i", ".", "x">>
ExamplePath == <<"a", "p", "i", "/", "P", "r", "o", "d", "u", "c", "t">>
ExampleUrl == ExampleBase \o <<"/">> \o ExamplePath

\* Configured bases: unset, the two of the example, and every string of at
\* most n characters over "/" and "b".
BaseInputs(n) ==
  {<<>>, ExampleBase, ExampleBase \o <<"/">>} \cup SeqsUpTo({"/", "b"}, n)

\* Paths: empty, the example's with and without a leading slash, absolute and
\* protocol-relative URLs, and every string of at most n characters over
\* "/", "h", "t", "p".
PathInputs(n) ==
  {<<>>, ExamplePath, <<"/">> \o ExamplePath, ExampleUrl, <<"/", "/">> \o ExamplePath,
   <<"h", "t", "t", "p", ":", "/", "/", "x">>}
    \cup SeqsUpTo({"/", "h", "t", "p"}, n)

ProbeUrl(base, path) ==
  [Probe("normalizeBaseUrl", NULL, DocNull, <<>>, <<>>) EXCEPT !.base = base, !.path = path]

ProbeInputs(fn) ==
  CASE fn = "normalizeBaseUrl" ->
         {ProbeUrl(b, p) : b \in BaseInputs(MaxBaseLen), p \in PathInputs(MaxPathLen)}
    [] fn = "decodeToken" ->
         {Probe(fn, t, DocNull, <<>>, <<>>) : t \in TokenInputs(MaxSegments)}
    [] fn = "resolveClaim" ->
         {Probe(fn, NULL, c, keys, <<>>) : c \in ClaimInputs(MaxClaimKeys), keys \in FieldKeys}
    [] fn = "extractUserFromClaims" ->
         {Probe(fn, NULL, c, <<>>, <<>>) : c \in ClaimInputs(MaxClaimKeys)}
    [] OTHER ->
         {Probe(fn, t, DocNull, <<>>, i) :
            t \in {NULL, TokEmpty, TokAdmin}, i \in InitInputs(MaxInitHeaders)}

ProbeFns ==
  {"decodeToken", "resolveClaim", "extractUserFromClaims", "buildHeaders",
   "normalizeBaseUrl"}

\* The session of a module loaded with nothing stored; the helpers read none
\* of it but the token buildHeaders is given.
InitPure ==
  /\ storageOk = TRUE
  /\ slot = NULL
  /\ token = NULL
  /\ user = None
  /\ loading = FALSE
  /\ error = None
  /\ initialized = FALSE
  /\ inflight = [op \in Ops |-> 0]
  /\ last = Event("load", "", FALSE, "", "", FALSE, NoHeaders, NoResponse)
  /\ \E fn \in ProbeFns : probe \in ProbeInputs(fn)
  /\ view = ViewIdle
  /\ grid = GridIdle
  /\ calls = <<>>
  /\ step = StepIdle
  /\ route = START_LOCATION

session == <<token, user, loading, error, initialized, slot, storageOk, inflight, last>>

\* decodeToken(tok), then the identity applyToken derives from it.
CallDecodeToken ==
  /\ probe.fn = "decodeToken" /\ ~probe.done
  /\ LET r == DecodeToken(probe.tok)
     IN probe' = [probe EXCEPT !.done = TRUE, !.threw = r.threw, !.doc = r.doc,
                               !.user = IF r.threw THEN None
                                        ELSE ExtractUserFromClaims(r.doc)]
  /\ UNCHANGED <<session, views>>

CallResolveClaim ==
  /\ probe.fn = "resolveClaim" /\ ~probe.done
  /\ probe' = [probe EXCEPT !.done = TRUE,
                            !.text = ResolveClaim(probe.claims, probe.keys)]
  /\ UNCHANGED <<session, views>>

CallExtractUserFromClaims ==
  /\ probe.fn = "extractUserFromClaims" /\ ~probe.done
  /\ probe' = [probe EXCEPT !.done = TRUE,
                            !.user = ExtractUserFromClaims(probe.claims)]
  /\ UNCHANGED <<session, views>>

CallBuildHeaders ==
  /\ probe.fn = "buildHeaders" /\ ~probe.done
  /\ probe' = [probe EXCEPT !.done = TRUE,
                            !.headers = BuildHeaders(probe.init, probe.tok)]
  /\ UNCHANGED <<session, views>>

CallNormalizeBaseUrl ==
  /\ probe.fn = "normalizeBaseUrl" /\ ~probe.done
  /\ probe' = [probe EXCEPT !.done = TRUE,
                            !.url = NormalizeBaseUrl(probe.base, probe.path)]
  /\ UNCHANGED <<session, views>>

NextPure ==
  \/ CallDecodeToken
  \/ CallResolveClaim
  \/ CallExtractUserFromClaims
  \/ CallBuildHeaders
  \/ CallNormalizeBaseUrl

SpecPure == InitPure /\ [][NextPure]_vars

(***************************************************************************)
(* Claims about the helpers, checked under SpecPure.                        *)
(***************************************************************************)
Ran(fn) == probe.fn = fn /\ probe.done

\* The ways a token string is malformed.
TooFewSegments(tok) == Len(tok) < 2
WrongSegmentCount(tok) == Len(tok) # 3
EmptyPayload(tok) == Len(tok) >= 2 /\ tok[2] = ""
InvalidBase64(tok) ==
  Len(tok) >= 2 /\ tok[2] # "" /\ DecodeBase64Url(tok[2]).threw
InvalidJson(tok) ==
  /\ Len(tok) >= 2 /\ tok[2] # ""
  /\ ~DecodeBase64Url(tok[2]).threw
  /\ JsonParse(DecodeBase64Url(tok[2]).text).threw

Present(claims, key) ==
  claims.kind = "object" /\ key \in DOMAIN claims.obj /\ claims.obj[key].t # "null"

\* The string of the first alias of keys that is present, "" when none is.
FirstAlias(claims, keys) ==
  IF \E i \in 1..Len(keys) : Present(claims, keys[i])
    THEN LET i == CHOOSE i \in 1..Len(keys) :
                    /\ Present(claims, keys[i])
                    /\ \A j \in 1..(i - 1) : ~Present(claims, keys[j])
         IN JsString(claims.obj[keys[i]])
    ELSE ""

\* C8: the identity is present only if the id claim resolves to a finite number,
\* and then carries that number; with no id key, or an id that does not parse,
\* the identity is absent, also when it comes from a token string.
C8_IdentityNeedsFiniteId ==
  /\ Ran("extractUserFromClaims") =>
       LET parsed == ParseInt(FirstAlias(probe.claims, ID_CLAIM_KEYS))
       IN /\ probe.user # None =>
               (~parsed.nan /\ ~probe.user[1].id.nan /\ probe.user[1].id = parsed)
          /\ (~Present(probe.claims, "id") \/ parsed.nan) => probe.user = None
  /\ Ran("decodeToken") =>
       (probe.user # None => ~probe.user[1].id.nan /\ Present(probe.doc, "id"))

\* C8 witness: claims with an email and a role but no id gave no identity.
C8_Witness ==
  /\ Ran("extractUserFromClaims")
  /\ probe.claims.kind = "object"
  /\ DOMAIN probe.claims.obj = {"email", "role"}
  /\ Present(probe.claims, "email")
  /\ probe.user = None

\* C9: resolveClaim gives the string of the first alias of the list whose value
\* is present and not null, "" when there is none; the identity's id is that
\* string parsed as an integer; the sample claims resolve to
\* {id: 42, email: "a@b.com", role: "admin", usersName: ""}.
C9_FirstAliasWins ==
  /\ Ran("resolveClaim") => probe.text = FirstAlias(probe.claims, probe.keys)
  /\ Ran("extractUserFromClaims") =>
       /\ probe.user # None =>
            probe.user[1] =
              AuthUser(ParseInt(FirstAlias(probe.claims, ID_CLAIM_KEYS)),
                       FirstAlias(probe.claims, EMAIL_CLAIM_KEYS),
                       FirstAlias(probe.claims, ROLE_CLAIM_KEYS),
                       FirstAlias(probe.claims, NAME_CLAIM_KEYS))
       /\ probe.claims = SampleClaims =>
            probe.user = Some(AuthUser(Num(42), "a@b.com", "admin", ""))

\* C9 witness: the email resolved to the second alias because the first was null.
C9_Witness ==
  /\ Ran("resolveClaim")
  /\ probe.keys = EMAIL_CLAIM_KEYS
  /\ Prop(probe.claims, "email") = Some(JNull)
  /\ Present(probe.claims, XmlEmail)
  /\ probe.text = "x@y.org"

CallerSet(init, n) == \E i \in 1..Len(init) : Lower(init[i].name) = n

\* C10: buildHeaders gives Accept and Content-Type application/json unless the
\* caller set them, Authorization: Bearer <token> when a token is held and the
\* caller set none, keeps every header of the caller as given, and adds no
\* Authorization without a token.
C10_HeadersOnlyDefaulted ==
  Ran("buildHeaders") =>
    LET h == probe.headers
        init == probe.init
    IN /\ \A n \in {"accept", "content-type"} :
            /\ n \in DOMAIN h
            /\ h[n] = IF CallerSet(init, n) THEN Literal(ValuesOf(init, n))
                      ELSE Literal(<<"application/json">>)
       /\ CallerSet(init, "authorization") =>
            ("authorization" \in DOMAIN h
               /\ h["authorization"] = Literal(ValuesOf(init, "authorization")))
       /\ (~CallerSet(init, "authorization") /\ ~NoToken(probe.tok)) =>
            ("authorization" \in DOMAIN h /\ h["authorization"] = Bearer(probe.tok))
       /\ (~CallerSet(init, "authorization") /\ NoToken(probe.tok)) =>
            "authorization" \notin DOMAIN h
       /\ \A i \in 1..Len(init) :
            /\ Lower(init[i].name) \in DOMAIN h
            /\ h[Lower(init[i].name)] = Literal(ValuesOf(init, Lower(init[i].name)))
       /\ DOMAIN h \subseteq
            {"accept", "content-type", "authorization"}
              \cup {Lower(init[i].name) : i \in 1..Len(init)}

\* C10 witness: the caller's lower-case authorization header was kept while a
\* token was held, and Accept was defaulted.
C10_Witness ==
  /\ Ran("buildHeaders")
  /\ probe.tok = TokAdmin
  /\ probe.init = <<[name |-> "authorization", value |-> "Bearer other"]>>
  /\ probe.headers["authorization"] = Literal(<<"Bearer other">>)
  /\ probe.headers["accept"] = Literal(<<"application/json">>)

\* A URL with a scheme, or a protocol-relative one.
Absolute(path) ==
  \/ StartsWith(path, <<"h", "t", "t", "p", ":", "/", "/">>)
  \/ StartsWith(path, <<"h", "t", "t", "p", "s", ":", "/", "/">>)
  \/ StartsWith(path, <<"/", "/">>)

\* base and path joined by exactly one slash: a trailing slash of the base and
\* a leading slash of the path each count as the joining slash.
JoinOneSlash(base, path) ==
  (IF EndsWith(base, <<"/">>) THEN SubSeq(base, 1, Len(base) - 1) ELSE base)
    \o <<"/">>
    \o (IF StartsWith(path, <<"/">>) THEN SubSeq(path, 2, Len(path)) ELSE path)

Reply(net, ok, order, rows, options) ==
  [net |-> net, ok |-> ok, order |-> order, rows |-> rows, options |-> options]

Failures == {Reply(FALSE, FALSE, None, <<>>, <<>>), Reply(TRUE, FALSE, None, <<>>, <<>>)}

\* error.message of a failed request: fetch's TypeError, or `HTTP ${status}`.
FailureMessage(reply) == IF ~reply.net THEN FetchErrorMessage ELSE "HTTP 500"

Failed(reply) == ~reply.net \/ ~reply.ok

\* The data the server of the model holds.
Tea == ProductOption(1, "Tea", 10)
Cake == ProductOption(2, "Cake", 4)
Line1(orderId) == OrderDetailRow(1, orderId, 1, "Tea", 2, 10, 20)
Line2(orderId) == OrderDetailRow(2, orderId, 2, "Cake", 1, 4, 4)

\* The ids the route can carry at mount: 0 is a new (draft) order.
RouteIds == {0, 7}
\* The ids the server assigns to a created order head.
AssignedIds == {8}

\* GET /api/OrderHead/{id}.
OrderReplies(id) == Failures \cup {Reply(TRUE, TRUE, Some(OrderHeadModel(id, Some(0))), <<>>, <<>>)}
\* POST /api/OrderHead: a failure, a body without a usable id, or the created head.
CreateReplies ==
  Failures
    \cup {Reply(TRUE, TRUE, None, <<>>, <<>>),
          Reply(TRUE, TRUE, Some(OrderHeadModel(0, Some(0))), <<>>, <<>>)}
    \cup {Reply(TRUE, TRUE, Some(OrderHeadModel(id, Some(0))), <<>>, <<>>) : id \in AssignedIds}
\* GET /api/OrderDetail/{orderId}: at most n rows.
DetailReplies(orderId, n) ==
  Failures
    \cup {Reply(TRUE, TRUE, None, rows, <<>>) :
            rows \in {r \in {<<>>, <<Line1(orderId), Line2(orderId)>>} : Len(r) <= n}}
\* GET /api/Product.
ProductReplies == Failures \cup {Reply(TRUE, TRUE, None, <<>>, <<Tea, Cake>>)}
\* POST / PUT /api/OrderDetail from the dialog: only the status is read.
LineReplies == Failures \cup {Reply(TRUE, TRUE, None, <<>>, <<>>)}
\* PUT /api/OrderDetail from the grid, for the row sent: a failure, no body,
\* the row echoed, the row as the server normalized it, or another row.
UpdateReplies(sent) ==
  Failures
    \cup {Reply(TRUE, TRUE, None, rows, <<>>) :
            rows \in {<<>>, <<sent>>, <<[sent EXCEPT !.rowSum = @ + 1]>>,
                      <<[sent EXCEPT !.id = @ + 1]>>}}

\* What event.newValue can be in the quantity and product editors.
QtyValues == {JNull, JNum(-1), JNum(0), JNum(2), JNum(5), JStr("abc")}
ProductValues == {JNull, JNum(0), JNum(2), JNum(9)}
DialogQtys == {3}

Send(fx, request) == [fx EXCEPT !.requests = Append(@, request)]
Show(fx, toast) == [fx EXCEPT !.toasts = Append(@, toast)]
Spawn(fx, call) == [fx EXCEPT !.calls = Append(@, call)]
Remove(cs, i) == SubSeq(cs, 1, i - 1) \o SubSeq(cs, i + 1, Len(cs))

\* The steps that a user starts; the others are replies of the server.
UserEvents == {"edit", "submit", "save", "open", "cancel", "input", "select", "delete"}

\* The state a step leaves: the handler's effects, and the record of the step.
Commit(fx, ev, fn, rowId, before) ==
  /\ view' = fx.view
  /\ calls' = fx.calls
  /\ step' = [Step(ev, fn, rowId, before, fx.requests, fx.toasts) EXCEPT
                !.events = step.events + IF ev \in UserEvents THEN 1 ELSE 0,
                !.failures =
                  step.failures + IF fn = "ensureOrderCreated" /\ ev = "failed" THEN 1 ELSE 0,
                !.created = step.created \/ ev = "created"]
  /\ UNCHANGED <<session, probe, grid, route>>

Begin == Fx(view, calls, <<>>, <<>>)
Resume(i) == Fx(view, Remove(calls, i), <<>>, <<>>)

\* ensureProductOptions, lines 788-800, as a call nobody awaits.
EnsureProductOptions(fx) ==
  IF fx.view.productOptionsLoaded \/ fx.view.productOptionsLoading THEN fx
  ELSE Spawn(Send([fx EXCEPT !.view.productOptionsLoading = TRUE],
                  Fetch("GET", "/api/Product", 0, 0, NoRow)),
             Call("ensureProductOptions", "fetch", 0, NoRow, NoRow, FALSE, <<>>, None))

\* loadOrder up to its fetch, lines 476-490, within refreshDetails (1359-1362).
RefreshDetails(fx, orderId) ==
  Spawn(Send(fx, Fetch("GET", "/api/OrderHead/{id}", orderId, 0, NoRow)),
        Call("refreshDetails", "loadOrder", orderId, NoRow, NoRow, FALSE, <<>>, None))

\* loadOrderDetails up to its fetch, lines 518-532; done tells it returned
\* without a request.
LoadOrderDetails(fx, orderId) ==
  IF orderId = 0 THEN [fx EXCEPT !.view.details = <<>>]
  ELSE Send([fx EXCEPT !.view.loading = TRUE, !.view.errorMessage = ""],
            Fetch("GET", "/api/OrderDetail/{orderId}", orderId, 0, NoRow))

\* loadOrderDetails from its reply on, lines 534-565.
LoadOrderDetailsDone(fx, reply) ==
  IF Failed(reply)
    THEN Show([fx EXCEPT !.view.details = <<>>, !.view.selectedDetail = None,
                         !.view.errorMessage = FailureMessage(reply),
                         !.view.loading = FALSE],
              Toast("error", FailureMessage(reply)))
    ELSE [fx EXCEPT !.view.details = reply.rows,
                    !.view.selectedDetail =
                      IF @ = None THEN None ELSE FindById(reply.rows, @[1].id),
                    !.view.loading = FALSE]

\* An update that waits while another update of the same row is in flight.
PersistDetailRowUpdateLocked(fx, nextRow, previousRow) ==
  IF \E k \in 1..Len(fx.calls) :
       fx.calls[k].fn = "persistDetailRowUpdate" /\ fx.calls[k].next.id = nextRow.id
    THEN [fx EXCEPT !.view = ApplyDetailRowPatch(@, nextRow.id, nextRow)]
  ELSE Spawn(Send([fx EXCEPT !.view = ApplyDetailRowPatch(@, nextRow.id, nextRow)],
                  Fetch("PUT", "/api/OrderDetail", nextRow.id, nextRow.orderId, nextRow)),
             Call("persistDetailRowUpdate", "fetch", nextRow.orderId, nextRow, previousRow,
                  FALSE, <<>>, None))

\* persistDetailRowUpdate up to its fetch, lines 1002-1050.
PersistDetailRowUpdate(fx, nextRow, previousRow) ==
  IF nextRow.orderId <= 0 \/ nextRow.productId <= 0 \/ nextRow.qty <= 0
    THEN [fx EXCEPT !.view = ApplyDetailRowPatch(@, previousRow.id, previousRow)]
  ELSE Spawn(Send([fx EXCEPT !.view = ApplyDetailRowPatch(@, nextRow.id, nextRow)],
                  Fetch("PUT", "/api/OrderDetail", nextRow.id, nextRow.orderId, nextRow)),
             Call("persistDetailRowUpdate", "fetch", nextRow.orderId, nextRow, previousRow,
                  FALSE, <<>>, None))

\* A product edit that changes the id and keeps the name and the price the row
\* holds.
CellEditProductCached(fx, ed) ==
  IF ed.nextProductId = ed.previousRow.productId THEN fx
  ELSE PersistDetailRowUpdate(fx, [ed.currentRow EXCEPT !.productId = ed.nextProductId],
                              ed.previousRow)

\* handleDetailCellEdit from the option lookup on, lines 1115-1150.
CellEditProduct(fx, ed) ==
  LET option == FindById(fx.view.productOptions, ed.nextProductId) IN
  IF option = None
    THEN Show([fx EXCEPT !.view = ApplyDetailRowPatch(@, ed.previousRow.id, ed.previousRow)],
              Toast("warn", "product not found"))
  ELSE LET hasProductChanged ==
             \/ option[1].id # ed.previousRow.productId
             \/ option[1].label # ed.previousRow.productName
             \/ option[1].price # ed.previousRow.price
           nextRow ==
             [ed.currentRow EXCEPT !.productId = option[1].id,
                                   !.productName = option[1].label,
                                   !.price = option[1].price,
                                   !.rowSum = option[1].price * ed.currentRow.qty]
       IN IF ~hasProductChanged
            THEN [fx EXCEPT !.view = ApplyDetailRowPatch(@, nextRow.id, nextRow)]
            ELSE PersistDetailRowUpdate(fx, nextRow, ed.previousRow)

\* handleDetailCellEdit, lines 1077-1180, for the row at index i of the grid
\* (event.data), the edited field and event.newValue.
HandleDetailCellEditBody(fx, row, field, newValue) ==
  LET previousRow == row
      currentRow ==
        IF FindById(fx.view.details, row.id) = None THEN row
        ELSE FindById(fx.view.details, row.id)[1]
  IN
  IF fx.view.order = None \/ fx.view.order[1].id <= 0 THEN fx
  ELSE IF field \notin {"productId", "qty"} THEN fx
  ELSE IF field = "productId" THEN
    LET nextProductId ==
          IF newValue.t = "null" THEN Num(currentRow.productId) ELSE ToNumber(newValue)
    IN IF ~IsFinite(nextProductId) \/ nextProductId.n <= 0
         THEN Show([fx EXCEPT !.view = ApplyDetailRowPatch(@, previousRow.id, previousRow)],
                   Toast("warn", "choose a product"))
       ELSE IF ~fx.view.productOptionsLoaded /\ ~fx.view.productOptionsLoading
         THEN Spawn(Send([fx EXCEPT !.view.productOptionsLoading = TRUE],
                         Fetch("GET", "/api/Product", 0, 0, NoRow)),
                    Call("ensureProductOptions", "fetch", 0, NoRow, NoRow, FALSE, <<>>,
                         Some(CellEditor(previousRow, currentRow, nextProductId.n))))
       ELSE CellEditProduct(fx, CellEditor(previousRow, currentRow, nextProductId.n))
  ELSE
    LET nextQty == IF newValue.t = "null" THEN Num(currentRow.qty) ELSE ToNumber(newValue)
    IN IF ~IsFinite(nextQty) \/ nextQty.n <= 0
         THEN Show([fx EXCEPT !.view = ApplyDetailRowPatch(@, previousRow.id, previousRow)],
                   Toast("warn", "quantity must be positive"))
       ELSE LET hasQtyChanged == nextQty.n # previousRow.qty
                nextRow == [currentRow EXCEPT !.qty = nextQty.n,
                                              !.rowSum = currentRow.price * nextQty.n]
            IN IF ~hasQtyChanged
                 THEN [fx EXCEPT !.view = ApplyDetailRowPatch(@, nextRow.id, nextRow)]
                 ELSE PersistDetailRowUpdate(fx, nextRow, previousRow)

EditValues(field) == IF field = "qty" THEN QtyValues ELSE ProductValues


\* The bound on the user events of a run.
MaxEvents == 3

CanStart == step.events < MaxEvents

\* The view as mounting leaves it: the immediate watch of props.OrderId, lines
\* 279-291, has called refreshDetails, which awaits loadOrder's fetch.
InitOrder ==
  /\ storageOk = TRUE
  /\ slot = NULL
  /\ token = NULL
  /\ user = None
  /\ loading = FALSE
  /\ error = None
  /\ initialized = FALSE
  /\ inflight = [op \in Ops |-> 0]
  /\ last = Event("load", "", FALSE, "", "", FALSE, NoHeaders, NoResponse)
  /\ probe = ProbeIdle
  /\ grid = GridIdle
  /\ route = START_LOCATION
  /\ \E id \in RouteIds :
       /\ view = View(id)
       /\ calls = <<Call("refreshDetails", "loadOrder", id, NoRow, NoRow, FALSE, <<>>, None)>>
       /\ step = Step("start", "refreshDetails", 0, NoRow,
                      <<Fetch("GET", "/api/OrderHead/{id}", id, 0, NoRow)>>, <<>>)

\* loadOrder from its reply on, lines 491-515.
LoadOrderDone(fx, reply) ==
  IF Failed(reply)
    THEN [fx EXCEPT !.view.order = None, !.view.errorMessage = FailureMessage(reply)]
  ELSE IF reply.order = None
    THEN [fx EXCEPT !.view.order = None, !.view.errorMessage = "order not found"]
  ELSE EnsureProductOptions([fx EXCEPT !.view.order = reply.order,
                                       !.view.errorMessage = ""])

\* refreshDetails, lines 1359-1362, resumed by loadOrder's reply: the rest of
\* loadOrder, then loadOrderDetails up to its fetch.
RefreshOrderReturn ==
  \E i \in 1..Len(calls) : \E reply \in OrderReplies(calls[i].orderId) \cup
                                        {Reply(TRUE, TRUE, None, <<>>, <<>>)} :
    /\ calls[i].fn = "refreshDetails" /\ calls[i].stage = "loadOrder"
    /\ LET loaded == LoadOrderDone(Resume(i), reply)
           after == LoadOrderDetails(loaded, calls[i].orderId)
       IN Commit(IF calls[i].orderId = 0 THEN after
                 ELSE Spawn(after, [calls[i] EXCEPT !.stage = "loadOrderDetails"]),
                 "return", "loadOrder", 0, NoRow)

\* refreshDetails resumed by loadOrderDetails' reply.
RefreshDetailsReturn ==
  \E i \in 1..Len(calls) : \E reply \in DetailReplies(calls[i].orderId, 2) :
    /\ calls[i].fn = "refreshDetails" /\ calls[i].stage = "loadOrderDetails"
    /\ Commit(LoadOrderDetailsDone(Resume(i), reply), "return", "loadOrderDetails", 0, NoRow)

\* ensureProductOptions from its reply on, lines 803-834, and then the caller
\* that awaited it (handleDetailCellEdit, line 1112).
EnsureProductOptionsReturn ==
  \E i \in 1..Len(calls) : \E reply \in ProductReplies :
    /\ calls[i].fn = "ensureProductOptions"
    /\ LET fx == Resume(i)
           done ==
             IF Failed(reply)
               THEN Show([fx EXCEPT !.view.productOptionsLoading = FALSE],
                         Toast("error", FailureMessage(reply)))
             ELSE LET v1 == EnsureCurrentProductInOptions(
                              [fx.view EXCEPT !.productOptions = reply.options,
                                              !.productOptionsLoaded = TRUE])
                  IN [fx EXCEPT !.view =
                        [v1 EXCEPT !.selectedProductId =
                                     IF @ = None /\ Len(reply.options) > 0
                                       THEN Some(reply.options[1].id) ELSE @,
                                   !.productOptionsLoading = FALSE]]
       IN Commit(IF calls[i].then = None THEN done ELSE CellEditProduct(done, calls[i].then[1]),
                 "return", "ensureProductOptions",
                 IF calls[i].then = None THEN 0 ELSE calls[i].then[1].previousRow.id,
                 IF calls[i].then = None THEN NoRow ELSE calls[i].then[1].previousRow)

\* The cell-edit-complete event of the lines grid: event.data is a row of the
\* list, event.field the column, event.newValue what the editor holds.
HandleDetailCellEdit ==
  \E i \in 1..Len(view.details) : \E field \in {"productId", "qty", "price"} :
    \E newValue \in EditValues(field) :
      /\ CanStart
      /\ ~view.detailDialogVisible
      /\ Commit(HandleDetailCellEditBody(Begin, view.details[i], field, newValue),
                "edit", field, view.details[i].id, view.details[i])

\* persistDetailRowUpdate from its reply on, lines 1052-1074.
PersistReturn ==
  \E i \in 1..Len(calls) : \E reply \in UpdateReplies(calls[i].next) :
    /\ calls[i].fn = "persistDetailRowUpdate"
    /\ LET fx == Resume(i)
           nextRow == calls[i].next
           previousRow == calls[i].prev
       IN Commit(IF Failed(reply)
                   THEN Show([fx EXCEPT !.view =
                                ApplyDetailRowPatch(@, previousRow.id, previousRow)],
                             Toast("error", FailureMessage(reply)))
                 ELSE IF reply.rows # <<>> /\ reply.rows[1].id = nextRow.id
                   THEN [fx EXCEPT !.view =
                           ApplyDetailRowPatch(@, reply.rows[1].id, reply.rows[1])]
                 ELSE fx,
                 IF Failed(reply) THEN "failed" ELSE "saved", "persistDetailRowUpdate",
                 previousRow.id, previousRow)


\* The check of the header after the await, lines 919-921.
HeaderLoaded(v) == v.order # None

HeaderHasId(v) == v.order # None /\ v.order[1].id > 0

\* The check of the slot, line 682.
CreationPendingNever(v) == FALSE

CreationPending(v) == v.orderCreationPromise

\* The finally of the creation, lines 768-770.
KeepCreationSlot(v) == v

ClearCreationSlot(v) == [v EXCEPT !.orderCreationPromise = FALSE]

\* handleSubmitDetail after await ensureOrderCreated(), lines 919-953, for the
\* locals w: the line request, or a return when the header has no id. Reading
\* editingDetail.value! when it is null raises a TypeError outside any try.
SubmitAfterCreate(fx, w) ==
  LET v == fx.view IN
  IF ~HeaderHasId(v) THEN fx
  ELSE IF v.editingDetail = None /\ (w.product = None \/ w.isEdit)
    THEN [fx EXCEPT !.view.detailDialogSaving = TRUE]
  ELSE LET effectiveProduct ==
             IF w.product # None THEN w.product[1]
             ELSE ProductOption(v.editingDetail[1].productId, v.editingDetail[1].productName,
                                v.editingDetail[1].price)
           payload ==
             OrderDetailRow(IF w.isEdit THEN v.editingDetail[1].id ELSE 0, v.order[1].id,
                            effectiveProduct.id, effectiveProduct.label, w.qty,
                            effectiveProduct.price, effectiveProduct.price * w.qty)
       IN Spawn(Send([fx EXCEPT !.view.detailDialogSaving = TRUE],
                     Fetch(IF w.isEdit THEN "PUT" ELSE "POST", "/api/OrderDetail", payload.id,
                           payload.orderId, payload)),
                Call("handleSubmitDetail", "fetch", payload.orderId, payload, NoRow, w.isEdit,
                     <<>>, None))

\* saveOrder after await ensureOrderCreated() returned justCreated, lines
\* 1204-1240: the PUT of a persisted order that has changes.
SaveAfterCreate(fx, justCreated, hasChanges) ==
  LET v == fx.view IN
  IF justCreated \/ ~hasChanges \/ v.order = None \/ v.order[1].id <= 0 THEN fx
  ELSE Spawn(Send([fx EXCEPT !.view.isSaving = TRUE],
                  Fetch("PUT", "/api/OrderHead", v.order[1].id, 0, NoRow)),
             Call("saveOrder", "fetch", v.order[1].id, NoRow, NoRow, FALSE, <<>>, None))

\* A caller resumed when the creation it awaited has settled.
ResumeWaiter(fx, w) ==
  IF w.fn = "handleSubmitDetail" THEN SubmitAfterCreate(fx, w)
  ELSE SaveAfterCreate(fx, fx.view.order # None /\ fx.view.order[1].id > 0, FALSE)

RECURSIVE ResumeWaiters(_, _)
ResumeWaiters(fx, ws) ==
  IF ws = <<>> THEN fx ELSE ResumeWaiters(ResumeWaiter(fx, Head(ws)), Tail(ws))

IndexOfCreation(cs) ==
  IF \E i \in 1..Len(cs) : cs[i].fn = "ensureOrderCreated"
    THEN CHOOSE i \in 1..Len(cs) : cs[i].fn = "ensureOrderCreated"
    ELSE 0

\* ensureOrderCreated, lines 677-786, up to its await, called by w: it returns
\* false at once for a persisted order (and w goes on), joins the pending
\* creation, or starts one.
EnsureOrderCreated(fx, w, hasChanges) ==
  LET v == fx.view IN
  IF v.order = None \/ v.order[1].id > 0
    THEN IF w.fn = "handleSubmitDetail" THEN SubmitAfterCreate(fx, w)
         ELSE SaveAfterCreate(fx, FALSE, hasChanges)
  ELSE IF CreationPending(v)
    THEN [fx EXCEPT !.calls[IndexOfCreation(fx.calls)].waiters = Append(@, w)]
  ELSE Spawn(Send([fx EXCEPT !.view.orderCreationPromise = TRUE],
                  Fetch("POST", "/api/OrderHead", 0, 0, NoRow)),
             Call("ensureOrderCreated", "fetch", 0, NoRow, NoRow, FALSE, <<w>>, None))

\* handleSubmitDetail, lines 888-923, up to its first await of the network.
HandleSubmitDetailBody(fx) ==
  LET v == fx.view
      product == SelectedProductOption(v)
      qty == v.detailDialogQty
      isEdit == v.dialogMode = "edit"
  IN IF v.order = None THEN fx
     ELSE IF (product = None \/ product[1].label = "") /\ ~(isEdit /\ v.editingDetail # None)
       THEN Show(fx, Toast("warn", "choose a product"))
     ELSE IF qty <= 0 THEN Show(fx, Toast("warn", "quantity must be positive"))
     ELSE EnsureOrderCreated(fx, Submitter(product, qty, isEdit), FALSE)

\* The save button of the dialog, enabled by detailDialogCanSave (line 1545).
HandleSubmitDetail ==
  /\ CanStart
  /\ view.detailDialogVisible
  /\ DetailDialogCanSave(view)
  /\ Commit(HandleSubmitDetailBody(Begin), "submit", "handleSubmitDetail", 0, NoRow)

\* saveOrder, lines 1182-1202, from the order number input (Enter, line 1413)
\* or a save button; hasChanges is what the form holds against the order.
SaveOrder ==
  \E hasChanges \in BOOLEAN :
    /\ CanStart
    /\ ~view.detailDialogVisible
    /\ view.order # None
    /\ ~view.isSaving
    /\ Commit(EnsureOrderCreated(Begin, Saver, hasChanges), "save", "saveOrder", 0, NoRow)

\* The creation, lines 718-771, from the reply to POST /api/OrderHead on, and
\* then every caller that awaited it, in the order they called. The route
\* change of router.replace runs the watch of props.OrderId (lines 279-291).
CreateReturn ==
  \E i \in 1..Len(calls) : \E reply \in CreateReplies :
    /\ calls[i].fn = "ensureOrderCreated"
    /\ LET fx == Resume(i)
           invalid == reply.order = None \/ reply.order[1].id <= 0
           created ==
             Show([fx EXCEPT !.view.order = reply.order], Toast("success", "order created"))
           routed ==
             IF created.view.OrderId = reply.order[1].id THEN created
             ELSE RefreshDetails(
                    [created EXCEPT !.view.OrderId = reply.order[1].id,
                                    !.view.selectedDetail = None,
                                    !.view.editingDetail = None,
                                    !.view.dialogMode =
                                      IF created.view.detailDialogVisible THEN @ ELSE "create"],
                    reply.order[1].id)
           settled ==
             IF Failed(reply) THEN Show(fx, Toast("error", FailureMessage(reply)))
             ELSE IF invalid THEN Show(fx, Toast("error", "invalid order data"))
             ELSE EnsureProductOptions(routed)
       IN Commit(ResumeWaiters([settled EXCEPT !.view = ClearCreationSlot(@)],
                               calls[i].waiters),
                 IF Failed(reply) \/ invalid THEN "failed" ELSE "created", "ensureOrderCreated",
                 0, NoRow)

\* handleSubmitDetail from the reply to its line request on, lines 968-999.
SubmitSettled(fx) ==
  LET v == [fx.view EXCEPT !.detailDialogSaving = FALSE] IN
  [fx EXCEPT !.view = IF v.detailDialogVisible THEN v ELSE ResetDetailDialogState(v)]

SubmitReturn ==
  \E i \in 1..Len(calls) : \E reply \in LineReplies :
    /\ calls[i].fn = "handleSubmitDetail" /\ calls[i].stage = "fetch"
    /\ LET fx == Resume(i) IN
       IF Failed(reply)
         THEN Commit(SubmitSettled(Show(fx, Toast("error", FailureMessage(reply)))),
                     "failed", "handleSubmitDetail", 0, NoRow)
       ELSE IF fx.view.order = None
         THEN Commit(SubmitSettled(Show(fx, Toast("error", "TypeError"))),
                     "failed", "handleSubmitDetail", 0, NoRow)
       ELSE Commit(Spawn(LoadOrderDetails(fx, fx.view.order[1].id),
                         [calls[i] EXCEPT !.stage = "loadOrderDetails",
                                          !.orderId = fx.view.order[1].id]),
                   "return", "handleSubmitDetail", 0, NoRow)

\* handleSubmitDetail resumed by loadOrderDetails' reply, lines 975-999.
SubmitReloadReturn ==
  \E i \in 1..Len(calls) : \E reply \in DetailReplies(calls[i].orderId, 2) :
    /\ calls[i].fn = "handleSubmitDetail" /\ calls[i].stage = "loadOrderDetails"
    /\ LET loaded == LoadOrderDetailsDone(Resume(i), reply)
           found == FindById(loaded.view.details, calls[i].next.id)
           selected ==
             [loaded EXCEPT !.view.selectedDetail =
                              IF calls[i].isEdit /\ found # None THEN found ELSE @,
                            !.view.detailDialogVisible = FALSE]
       IN Commit(SubmitSettled(Show(selected, Toast("success", "line saved"))),
                 "saved", "handleSubmitDetail", 0, NoRow)

\* saveOrder from the reply to its PUT on, lines 1257-1289.
SaveOrderReturn ==
  \E i \in 1..Len(calls) : \E reply \in LineReplies :
    /\ calls[i].fn = "saveOrder" /\ calls[i].stage = "fetch"
    /\ LET fx == Resume(i) IN
       IF Failed(reply)
         THEN Commit(Show([fx EXCEPT !.view.isSaving = FALSE],
                          Toast("error", FailureMessage(reply))),
                     "failed", "saveOrder", 0, NoRow)
       ELSE Commit(Spawn(Send(fx, Fetch("GET", "/api/OrderHead/{id}", calls[i].orderId, 0,
                                        NoRow)),
                         [calls[i] EXCEPT !.stage = "loadOrder"]),
                   "return", "saveOrder", 0, NoRow)

SaveOrderLoadReturn ==
  \E i \in 1..Len(calls) : \E reply \in OrderReplies(calls[i].orderId) :
    /\ calls[i].fn = "saveOrder" /\ calls[i].stage = "loadOrder"
    /\ Commit(Show([LoadOrderDone(Resume(i), reply) EXCEPT !.view.isSaving = FALSE],
                   Toast("success", "order saved")),
              "saved", "saveOrder", 0, NoRow)

\* openCreateDetailDialog, lines 837-854, and the watch of detailDialogVisible
\* (lines 308-318); the button is enabled as line 1433 says.
OpenCreateDetailDialog ==
  /\ CanStart
  /\ ~view.detailDialogVisible
  /\ view.order # None /\ ~view.loading /\ ~view.detailDialogSaving
  /\ LET opened == [ResetDetailDialogState(view) EXCEPT !.detailDialogVisible = TRUE]
     IN Commit(EnsureProductOptions([Begin EXCEPT !.view = opened]),
               "open", "openCreateDetailDialog", 0, NoRow)

\* openEditDetailDialog, lines 856-879; the button is enabled as lines
\* 1436-1439 say.
OpenEditDetailDialog ==
  /\ CanStart
  /\ ~view.detailDialogVisible
  /\ view.order # None /\ view.selectedDetail # None
  /\ ~view.loading /\ ~view.detailDialogSaving
  /\ LET detail == view.selectedDetail[1]
         opened == [view EXCEPT !.dialogMode = "edit", !.editingDetail = Some(detail),
                                !.detailDialogQty = detail.qty,
                                !.selectedProductId = Some(detail.productId),
                                !.detailDialogVisible = TRUE]
     IN Commit(IF ~view.productOptionsLoaded
                 THEN EnsureProductOptions([Begin EXCEPT !.view = opened])
                 ELSE [Begin EXCEPT !.view = EnsureCurrentProductInOptions(opened)],
               "open", "openEditDetailDialog", detail.id, detail)

\* cancelDetailDialog, lines 881-886, and the watch of detailDialogVisible.
CancelDetailDialog ==
  /\ CanStart
  /\ view.detailDialogVisible
  /\ ~view.detailDialogSaving
  /\ Commit([Begin EXCEPT !.view =
               ResetDetailDialogState([view EXCEPT !.detailDialogVisible = FALSE])],
            "cancel", "cancelDetailDialog", 0, NoRow)

\* The inputs of the dialog (v-model, lines 1516 and 1535), enabled as their
\* :disabled says.
SetDialogProduct ==
  \E i \in 1..Len(view.productOptions) :
    /\ CanStart
    /\ view.detailDialogVisible
    /\ ~view.detailDialogSaving /\ ~view.productOptionsLoading
    /\ view.selectedProductId # Some(view.productOptions[i].id)
    /\ Commit([Begin EXCEPT !.view.selectedProductId = Some(view.productOptions[i].id)],
              "input", "selectedProductId", 0, NoRow)

SetDialogQty ==
  \E qty \in DialogQtys \cup {0} :
    /\ CanStart
    /\ view.detailDialogVisible
    /\ ~view.detailDialogSaving
    /\ view.detailDialogQty # qty
    /\ Commit([Begin EXCEPT !.view.detailDialogQty = qty], "input", "detailDialogQty", 0, NoRow)

\* The selection of the lines grid (v-model:selection, line 1425).
SelectDetail ==
  \E i \in 1..Len(view.details) :
    /\ CanStart
    /\ ~view.detailDialogVisible
    /\ view.selectedDetail # Some(view.details[i])
    /\ Commit([Begin EXCEPT !.view.selectedDetail = Some(view.details[i])],
              "select", "selectedDetail", view.details[i].id, view.details[i])

NextOrder ==
  \/ RefreshOrderReturn
  \/ RefreshDetailsReturn
  \/ EnsureProductOptionsReturn
  \/ HandleDetailCellEdit
  \/ PersistReturn
  \/ HandleSubmitDetail
  \/ SaveOrder
  \/ CreateReturn
  \/ SubmitReturn
  \/ SubmitReloadReturn
  \/ SaveOrderReturn
  \/ SaveOrderLoadReturn
  \/ OpenCreateDetailDialog
  \/ OpenEditDetailDialog
  \/ CancelDetailDialog
  \/ SetDialogProduct
  \/ SetDialogQty
  \/ SelectDetail

SpecOrder == InitOrder /\ [][NextOrder]_vars


(***************************************************************************)
(* Claims about OrderDetailView, checked under SpecOrder.                  *)
(***************************************************************************)
IsLineRequest(r) == r.path = "/api/OrderDetail" /\ r.method \in {"POST", "PUT"}
IsCreateRequest(r) == r.path = "/api/OrderHead" /\ r.method = "POST"
LineRequests(requests) == SelectSeq(requests, IsLineRequest)
CreateRequests(requests) == SelectSeq(requests, IsCreateRequest)
IsSubmitter(w) == w.fn = "handleSubmitDetail"
Creations(cs) == {i \in 1..Len(cs) : cs[i].fn = "ensureOrderCreated"}

\* The inline edit just handled issued its PUT.
EditSent == step.ev = "edit" /\ step.requests # <<>> /\ IsLineRequest(step.requests[1])
\* The PUT of an inline edit just failed.
EditFailed == step.ev = "failed" /\ step.fn = "persistDetailRowUpdate"

\* C13: a valid inline edit of an order line shows the new value and the
\* recomputed row total (quantity x price) in the list in the very step that
\* issues the PUT, before any reply; when that PUT fails (network error or
\* non-2xx) the row is again exactly the row the edit found, and an error
\* notification carrying the failure's message is shown.
C13_OptimisticEditRevertsOnFailure ==
  /\ EditSent =>
       LET sent == step.requests[1].row IN
       /\ step.requests[1].method = "PUT"
       /\ FindById(view.details, sent.id) = Some(sent)
       /\ sent.rowSum = sent.qty * sent.price
       /\ sent # step.before
  /\ EditFailed =>
       /\ FindById(view.details, step.rowId) \in {None, Some(step.before)}
       /\ \E m \in {FetchErrorMessage, "HTTP 500"} : step.toasts = <<Toast("error", m)>>
       /\ step.requests = <<>>

\* C13 witness: the line {id 1, qty 2, price 10, rowSum 20} of a persisted
\* order, edited, is back to exactly those values after its PUT failed.
C13_Witness ==
  /\ EditFailed
  /\ step.before = OrderDetailRow(1, 7, 1, "Tea", 2, 10, 20)
  /\ FindById(view.details, 1) = Some(step.before)
  /\ view.order # None /\ view.order[1].id = 7


\* C18: while a creation of the draft order is in flight, no step issues
\* another POST /api/OrderHead and the view holds a single pending creation;
\* the callers that arrived meanwhile await it, and when it succeeds each
\* waiting line submission goes on with the one id the server assigned.
C18_SingleCreationInFlight ==
  [][/\ Cardinality(Creations(calls')) <= 1
     /\ \A i \in Creations(calls) :
          /\ CreateRequests(step'.requests) = <<>>
          /\ step'.ev = "created" =>
               /\ Len(LineRequests(step'.requests)) =
                    Len(SelectSeq(calls[i].waiters, IsSubmitter))
               /\ \A k \in 1..Len(step'.requests) :
                    IsLineRequest(step'.requests[k]) =>
                      /\ step'.requests[k].orderId = view'.order[1].id
                      /\ step'.requests[k].orderId \in AssignedIds]_vars

\* C18 witness: two callers awaited one creation, and both went on with the
\* id the server assigned.
C18_Witness ==
  /\ step.ev = "created"
  /\ Len(LineRequests(step.requests)) = 2
  /\ \A k \in 1..2 : LineRequests(step.requests)[k].orderId = view.order[1].id

\* C19: when a creation has settled the slot is empty (and the slot is
\* occupied exactly while a creation is pending); a call of ensureOrderCreated
\* for a draft with an empty slot issues a fresh POST /api/OrderHead, also
\* after a failure; and once a creation has succeeded, or while the order has
\* an id, no step issues a create request.
C19_SlotClearedAfterSettle ==
  [][/\ view'.orderCreationPromise <=> Creations(calls') # {}
     /\ (step'.fn = "ensureOrderCreated" /\ step'.ev \in {"created", "failed"}) =>
          ~view'.orderCreationPromise
     /\ (/\ step'.ev \in {"save", "submit"}
         /\ view.order # None /\ view.order[1].id = 0
         /\ ~view.orderCreationPromise) =>
          /\ Len(CreateRequests(step'.requests)) = 1
          /\ view'.orderCreationPromise
     /\ (step.created \/ HeaderHasId(view)) => CreateRequests(step'.requests) = <<>>]_vars

\* C19 witness: after a failed creation, a later call has issued a fresh
\* create request.
C19_Witness ==
  /\ step.failures > 0
  /\ step.ev \in {"save", "submit"}
  /\ Len(CreateRequests(step.requests)) = 1
  /\ view.orderCreationPromise

\* C20: every POST or PUT /api/OrderDetail carries as orderId an id > 0 that
\* the server has given the header, the id of the header on screen; for an
\* order that began as a draft it is sent only once the creation has
\* succeeded, with the assigned id; a submission on a draft sends no line
\* request in its own step, and the step in which a creation fails issues no
\* request at all.
C20_NoLineBeforeHeaderId ==
  /\ \A k \in 1..Len(step.requests) :
       IsLineRequest(step.requests[k]) =>
         /\ step.requests[k].orderId > 0
         /\ step.requests[k].orderId \in AssignedIds \cup RouteIds
         /\ view.order # None => step.requests[k].orderId = view.order[1].id
         /\ step.requests[k].orderId \in AssignedIds => step.created
         /\ step.ev = "created" => step.requests[k].orderId \in AssignedIds
  /\ (step.fn = "ensureOrderCreated" /\ step.ev = "failed") => step.requests = <<>>
  /\ (step.ev = "submit" /\ ~HeaderHasId(view)) => LineRequests(step.requests) = <<>>

\* C20 witness: the line of a dialog submitted on a draft was sent after the
\* creation, with the assigned id.
C20_Witness ==
  /\ step.ev = "created"
  /\ Len(LineRequests(step.requests)) = 1
  /\ LineRequests(step.requests)[1].method = "POST"
  /\ LineRequests(step.requests)[1].orderId \in AssignedIds
  /\ view.order[1].id = LineRequests(step.requests)[1].orderId


(***************************************************************************)
(* The list views with inline editing: OrderHeadView (src/unnamed/part_001), *)
(* ProductView and UsersView (src/src/views/ProductView.vue), CategoryView  *)
(* (src/src/views/CategoryView.vue). Of a row the model keeps the id and    *)
(* the text column edited inline (orderNumber, productName, categoryName,   *)
(* usersName), a sequence of characters. The grid hands the handler the     *)
(* row of the list as event.data, its text as event.value and the editor's  *)
(* text as event.newValue.                                                 *)
(***************************************************************************)
Row(id, text) == [id |-> id, text |-> text]

RECURSIVE TrimStart(_)
TrimStart(t) == IF t # <<>> /\ Head(t) = " " THEN TrimStart(Tail(t)) ELSE t

RECURSIVE TrimEnd(_)
TrimEnd(t) == IF t # <<>> /\ t[Len(t)] = " " THEN TrimEnd(SubSeq(t, 1, Len(t) - 1)) ELSE t

\* String.prototype.trim.
Trim(t) == TrimEnd(TrimStart(t))

GridNames == {"orders", "products", "categories", "users"}

\* What the editor can hold.
TextValues == {<<>>, <<" ">>, <<"a">>, <<" ", "a">>, <<"c">>}

\* The lists the server holds. Only fetchCategories (CategoryView.vue lines
\* 134-167) keeps a name as the server sent it; the other views trim.
ServerRows(name) ==
  {<<Row(1, <<"a">>), Row(2, <<"b">>)>>}
    \cup IF name = "categories" THEN {<<Row(1, <<" ", "a">>), Row(2, <<"b">>)>>} ELSE {}

\* A call of a list view suspended at its fetch: sent the row of the request,
\* snapshot the row as the edit found it, selectedId the selection the handler
\* kept, message the message of the error being handled.
GridCall(fn, sent, snapshot, selectedId, message) ==
  [fn |-> fn, sent |-> sent, snapshot |-> snapshot, selectedId |-> selectedId,
   message |-> message]

\* The replies to a PUT of a row: a failure, no usable body, or an echo.
PutReplies(sent) ==
  Failures \cup {Reply(TRUE, TRUE, None, rows, <<>>) :
                   rows \in {<<>>, <<sent>>, <<Row(sent.id, <<"e">>)>>}}
\* The replies to a GET of the list.
ListReplies(name) == Failures \cup {Reply(TRUE, TRUE, None, rows, <<>>) : rows \in ServerRows(name)}

InitGrid ==
  /\ storageOk = TRUE
  /\ slot = NULL
  /\ token = NULL
  /\ user = None
  /\ loading = FALSE
  /\ error = None
  /\ initialized = FALSE
  /\ inflight = [op \in Ops |-> 0]
  /\ last = Event("load", "", FALSE, "", "", FALSE, NoHeaders, NoResponse)
  /\ probe = ProbeIdle
  /\ view = ViewIdle
  /\ calls = <<>>
  /\ route = START_LOCATION
  /\ \E name \in GridNames : \E rows \in ServerRows(name) :
       /\ grid = Grid(name, rows, None)
       /\ step = Step("start", name, 0, Row(0, <<>>), <<>>, <<>>)

GridFx(g, cs, requests, toasts) ==
  [grid |-> g, calls |-> cs, requests |-> requests, toasts |-> toasts]

GridBegin == GridFx(grid, calls, <<>>, <<>>)
GridResume(i) == GridFx(grid, Remove(calls, i), <<>>, <<>>)

GridFetch(method, path, row) == [method |-> method, path |-> path, row |-> row]

SetText(rows, id, text) ==
  [k \in 1..Len(rows) |-> IF rows[k].id = id THEN Row(id, text) ELSE rows[k]]

HasRow(rows, id) == \E k \in 1..Len(rows) : rows[k].id = id

CommitGrid(fx, ev, fn, before, newValue) ==
  /\ grid' = fx.grid
  /\ calls' = fx.calls
  /\ step' = [Step(ev, fn, before.id, before, fx.requests, fx.toasts) EXCEPT
                !.events = step.events + IF ev \in UserEvents THEN 1 ELSE 0,
                !.newValue = newValue]
  /\ UNCHANGED <<session, probe, view, route>>

\* OrderHeadView handleCellEditComplete, part_001 lines 440-486, up to the
\* fetch of updateOrder (lines 394-413): the handler reads the row, never
\* event.newValue.
HandleCellEditCompleteOrders ==
  \E i \in 1..Len(grid.rows) : \E newValue \in TextValues :
    /\ CanStart
    /\ grid.name = "orders"
    /\ LET data == grid.rows[i]
           row == Row(data.id, Trim(data.text))
       IN CommitGrid(
            Spawn(Send([GridBegin EXCEPT !.grid.rows = SetText(@, row.id, row.text)],
                       GridFetch("PUT", "/api/OrderHead", row)),
                  GridCall("updateOrder", row, data, None, "")),
            "edit", "orders", data, newValue)

\* updateOrder from its reply on (part_001 lines 415-437) and the rest of the
\* handler: the success toast, or the catch up to the fetch of fetchOrders.
UpdateOrderReturn ==
  \E i \in 1..Len(calls) : \E reply \in PutReplies(calls[i].sent) :
    /\ calls[i].fn = "updateOrder"
    /\ LET fx == GridResume(i)
           normalized == IF reply.rows = <<>> THEN calls[i].sent ELSE reply.rows[1]
       IN IF Failed(reply)
            THEN CommitGrid(
                   Spawn(Send([fx EXCEPT !.grid.errorMessage = ""],
                              GridFetch("GET", "/api/OrderHead", Row(0, <<>>))),
                         [calls[i] EXCEPT !.fn = "fetchOrders",
                                          !.message = FailureMessage(reply)]),
                   "return", "orders", calls[i].snapshot, <<>>)
          ELSE CommitGrid(
                 Show([fx EXCEPT !.grid.rows =
                                   IF HasRow(@, normalized.id)
                                     THEN SetText(@, normalized.id, normalized.text)
                                     ELSE Append(@, normalized),
                                 !.grid.selected = Some(normalized.id)],
                      Toast("success", "saved")),
                 "saved", "orders", calls[i].snapshot, <<>>)

\* fetchOrders from its reply on (part_001 lines 266-292), inside the catch of
\* the handler, and then the error toast (lines 477-484).
FetchOrdersReturn ==
  \E i \in 1..Len(calls) : \E reply \in ListReplies("orders") :
    /\ calls[i].fn = "fetchOrders"
    /\ LET fx == GridResume(i)
           fetched ==
             IF Failed(reply)
               THEN [fx EXCEPT !.grid.rows = <<>>, !.grid.selected = None,
                               !.grid.errorMessage = FailureMessage(reply)]
               ELSE [fx EXCEPT !.grid.rows = reply.rows,
                               !.grid.selected =
                                 IF @ # None /\ HasRow(reply.rows, @[1]) THEN @ ELSE None]
       IN CommitGrid(Show(fetched, Toast("error", calls[i].message)),
                     "failed", "orders", calls[i].snapshot, <<>>)

\* ProductView handleCellEditComplete, ProductView.vue lines 606-641, with
\* buildPayloadFromRow (lines 260-288), up to the fetch of updateProductPayload.
HandleCellEditCompleteProducts ==
  \E i \in 1..Len(grid.rows) : \E newValue \in TextValues :
    /\ CanStart
    /\ grid.name = "products"
    /\ LET snapshot == grid.rows[i]
           product == Row(snapshot.id, Trim(newValue))
       IN IF product.text = <<>>
            THEN CommitGrid(Show(GridBegin, Toast("error", "Product name is required.")),
                            "edit", "products", snapshot, newValue)
          ELSE CommitGrid(
                 Spawn(Send([GridBegin EXCEPT !.grid.rows = SetText(@, product.id, product.text)],
                            GridFetch("PUT", "/api/Product", product)),
                       GridCall("updateProductRow", product, snapshot, grid.selected, "")),
                 "edit", "products", snapshot, newValue)

\* updateProductPayload from its reply on (lines 301-303), updateProductRow
\* (lines 310-314), and the handler up to the fetch of loadProducts, or its
\* catch (lines 631-640).
UpdateProductReturn ==
  \E i \in 1..Len(calls) : \E reply \in PutReplies(calls[i].sent) :
    /\ calls[i].fn = "updateProductRow"
    /\ LET fx == GridResume(i) IN
       IF Failed(reply)
         THEN CommitGrid(
                Show([fx EXCEPT !.grid.rows =
                        SetText(@, calls[i].snapshot.id, calls[i].snapshot.text)],
                     Toast("error", FailureMessage(reply))),
                "failed", "products", calls[i].snapshot, <<>>)
       ELSE CommitGrid(
              Spawn(Send([fx EXCEPT !.grid.rows =
                                      SetText(@, calls[i].sent.id, calls[i].sent.text),
                                    !.grid.errorMessage = ""],
                         GridFetch("GET", "/api/Product", Row(0, <<>>))),
                    [calls[i] EXCEPT !.fn = "loadProducts"]),
              "return", "products", calls[i].snapshot, <<>>)

\* loadProducts from its reply on (lines 812-835), and the handler's restore
\* of the selection (lines 628-630). The server lists the row as it saved it.
LoadProductsReturn ==
  \E i \in 1..Len(calls) : \E reply \in ListReplies("products") :
    /\ calls[i].fn = "loadProducts"
    /\ LET fx == GridResume(i)
           listed == SetText(reply.rows, calls[i].sent.id, calls[i].sent.text)
           restore(g) ==
             IF calls[i].selectedId = None THEN g
             ELSE [g EXCEPT !.selected =
                              IF HasRow(g.rows, calls[i].selectedId[1])
                                THEN calls[i].selectedId ELSE None]
       IN IF Failed(reply)
            THEN CommitGrid(
                   Show([fx EXCEPT !.grid =
                           restore([@ EXCEPT !.errorMessage = FailureMessage(reply)])],
                        Toast("error", FailureMessage(reply))),
                   "saved", "products", calls[i].snapshot, <<>>)
          ELSE CommitGrid([fx EXCEPT !.grid =
                             restore([@ EXCEPT !.rows = listed, !.selected = None])],
                          "saved", "products", calls[i].snapshot, <<>>)

\* applyCategoryName, CategoryView.vue lines 265-273.
ApplyCategoryName(g, id, name) == [g EXCEPT !.rows = SetText(@, id, name)]

\* CategoryView handleCellEditComplete, CategoryView.vue lines 379-427, up to
\* the fetch of persistCategoryName (lines 254-263).
HandleCellEditCompleteCategories ==
  \E i \in 1..Len(grid.rows) : \E newValue \in TextValues :
    /\ CanStart
    /\ grid.name = "categories"
    /\ LET data == grid.rows[i]
           originalValue == Trim(data.text)
           proposedValue == Trim(newValue)
           reverted == [GridBegin EXCEPT !.grid.rows = SetText(@, data.id, originalValue)]
       IN IF proposedValue = <<>>
            THEN CommitGrid(Show(reverted, Toast("warn", "empty value")),
                            "edit", "categories", data, newValue)
          ELSE IF originalValue = proposedValue
            THEN CommitGrid(reverted, "edit", "categories", data, newValue)
          ELSE CommitGrid(
                 Spawn(Send(GridBegin, GridFetch("PUT", "/api/Category",
                                                 Row(data.id, proposedValue))),
                       GridCall("persistCategoryName", Row(data.id, proposedValue), data, None,
                                "")),
                 "edit", "categories", data, newValue)

\* persistCategoryName from its reply on (lines 260-262) and the rest of the
\* handler (lines 404-425).
PersistCategoryReturn ==
  \E i \in 1..Len(calls) : \E reply \in PutReplies(calls[i].sent) :
    /\ calls[i].fn = "persistCategoryName"
    /\ LET fx == GridResume(i) IN
       IF Failed(reply)
         THEN CommitGrid(
                Show([fx EXCEPT !.grid =
                        ApplyCategoryName(@, calls[i].snapshot.id,
                                          Trim(calls[i].snapshot.text))],
                     Toast("error", FailureMessage(reply))),
                "failed", "categories", calls[i].snapshot, <<>>)
       ELSE CommitGrid(
              Show([fx EXCEPT !.grid =
                      ApplyCategoryName(@, calls[i].sent.id, calls[i].sent.text)],
                   Toast("success", "saved")),
              "saved", "categories", calls[i].snapshot, <<>>)

\* UsersView handleCellEditComplete, ProductView.vue lines 1706-1762, for a
\* string field, up to the fetch of persistUserUpdate (lines 1681-1704).
HandleCellEditCompleteUsers ==
  \E i \in 1..Len(grid.rows) : \E newValue \in TextValues :
    /\ CanStart
    /\ grid.name = "users"
    /\ LET row == grid.rows[i]
           normalizedString == Trim(newValue)
           previousString == Trim(row.text)
           reverted == [GridBegin EXCEPT !.grid.rows = SetText(@, row.id, previousString)]
       IN IF normalizedString = <<>>
            THEN CommitGrid([reverted EXCEPT !.grid.errorMessage = "field must not be empty"],
                            "edit", "users", row, newValue)
          ELSE IF normalizedString = previousString
            THEN CommitGrid(reverted, "edit", "users", row, newValue)
          ELSE CommitGrid(
                 Spawn(Send([GridBegin EXCEPT !.grid.rows =
                                                SetText(@, row.id, normalizedString),
                                              !.grid.errorMessage = ""],
                            GridFetch("PUT", "/api/Users/{id}", Row(row.id, normalizedString))),
                       GridCall("persistUserUpdate", Row(row.id, normalizedString), row, None,
                                "")),
                 "edit", "users", row, newValue)

\* persistUserUpdate from its reply on (lines 1701-1703) and the rest of the
\* handler (lines 1764-1780).
PersistUserReturn ==
  \E i \in 1..Len(calls) : \E reply \in PutReplies(calls[i].sent) :
    /\ calls[i].fn = "persistUserUpdate"
    /\ LET fx == GridResume(i) IN
       IF Failed(reply)
         THEN CommitGrid([fx EXCEPT !.grid.rows =
                                      SetText(@, calls[i].snapshot.id,
                                              Trim(calls[i].snapshot.text)),
                                    !.grid.errorMessage = FailureMessage(reply)],
                         "failed", "users", calls[i].snapshot, <<>>)
       ELSE CommitGrid([fx EXCEPT !.grid.rows =
                                    SetText(@, calls[i].sent.id, calls[i].sent.text)],
                       "saved", "users", calls[i].snapshot, <<>>)

\* The selection of the grid (v-model:selection).
SelectRow ==
  \E i \in 1..Len(grid.rows) :
    /\ CanStart
    /\ grid.selected # Some(grid.rows[i].id)
    /\ CommitGrid([GridBegin EXCEPT !.grid.selected = Some(grid.rows[i].id)],
                  "select", grid.name, grid.rows[i], <<>>)

NextGrid ==
  \/ HandleCellEditCompleteOrders
  \/ UpdateOrderReturn
  \/ FetchOrdersReturn
  \/ HandleCellEditCompleteProducts
  \/ UpdateProductReturn
  \/ LoadProductsReturn
  \/ HandleCellEditCompleteCategories
  \/ PersistCategoryReturn
  \/ HandleCellEditCompleteUsers
  \/ PersistUserReturn
  \/ SelectRow

SpecGrid == InitGrid /\ [][NextGrid]_vars


(***************************************************************************)
(* Claims about inline editing in the list views, checked under SpecGrid.   *)
(***************************************************************************)
\* The row the step concerned, as the list now holds it (optional).
RowNow == FindById(grid.rows, step.rowId)
Edited == step.ev = "edit"
Notified(severity) == \E k \in 1..Len(step.toasts) : step.toasts[k].severity = severity

C15_UnchangedEditNoRequest ==
  (Edited /\ Trim(step.newValue) # <<>> /\ Trim(step.newValue) = Trim(step.before.text)) =>
    /\ step.requests = <<>>
    /\ RowNow = Some(Row(step.rowId, Trim(step.before.text)))

\* C15, the failing input: the unchanged name of a product is sent.
C15_UnchangedEditSent ==
  /\ Edited /\ grid.name = "products"
  /\ step.newValue = step.before.text
  /\ step.requests # <<>> /\ step.requests[1].method = "PUT"

\* C16 (as claimed): in every list view, when the update of an inline edit
\* has failed, the row is the row the edit found, an error notification with
\* the failure's message is shown, the selection is what it was, and every
\* other row is still in the list, unchanged.
C16_FailureRevertsRow ==
  [][step'.ev = "failed" =>
       /\ FindById(grid'.rows, step'.rowId) = Some(step'.before)
       /\ \E m \in {FetchErrorMessage, "HTTP 500"} : step'.toasts = <<Toast("error", m)>>
       /\ grid'.selected = grid.selected
       /\ \A k \in 1..Len(grid.rows) :
            grid.rows[k].id # step'.rowId =>
              FindById(grid'.rows, grid.rows[k].id) = Some(grid.rows[k])]_vars

\* C16, the failing input: after a failed edit in OrderHeadView the list is
\* empty and nothing is selected.
C16_FailureEmptiesList ==
  /\ step.ev = "failed" /\ grid.name = "orders"
  /\ grid.rows = <<>> /\ grid.selected = None
  /\ grid.errorMessage # ""

\* C17 (as claimed): in every list view, when the update of an inline edit
\* has succeeded, the row is in the list and a success notification is shown.
C17_SuccessNotifies ==
  step.ev = "saved" => RowNow # None /\ Notified("success")

\* C17, the failing input: an edit in UsersView was saved without any
\* notification.
C17_SavedWithoutNotice ==
  /\ step.ev = "saved" /\ grid.name = "users"
  /\ step.toasts = <<>>
  /\ RowNow # None /\ RowNow # Some(step.before)


(***************************************************************************)
(* Claims about overlapping operations of the session store, checked under *)
(* Spec.                                                                   *)
(***************************************************************************)
\* C25 (as claimed): when a login has just completed successfully and holds a
\* token, the completion of a logout that was already in flight leaves that
\* token in place.
C25_StaleLogoutKeepsNewSession ==
  [][(/\ last.ev = "return" /\ last.op = "login" /\ ~last.threw
      /\ ~NoToken(token)
      /\ last'.ev = "return" /\ last'.op = "logout") => token' = token]_vars

\* C25, the failing input: the logout that was in flight when the login
\* completed has completed, and the session holds no token.
C25_StaleLogoutClearedSession ==
  /\ last.ev = "return" /\ last.op = "logout"
  /\ last.hadToken
  /\ NoToken(token) /\ user = None
  /\ inflight["logout"] = 0

\* C29 (as claimed): state.loading is true exactly while a login, register or
\* logout call is in flight.
C29_LoadingIffInFlight == loading <=> InFlight > 0

\* C29, the failing input: one of two overlapping calls has completed, the
\* other still awaits its response, and loading is false.
C29_IdleWhileInFlight ==
  /\ last.ev = "return"
  /\ InFlight > 0
  /\ ~loading

(***************************************************************************)
(* UsersView (src/src/views/ProductView.vue from line 1290) next to the     *)
(* session store: the refs users, selectedUser, loading and errorMessage,   *)
(* the fetch of the list and the watch of auth.token. The view is mounted   *)
(* by a signed-in administrator; App.vue's logout button (CategoryView.vue  *)
(* from line 734) ends the session and leaves the page only when logout     *)
(* did not throw.                                                           *)
(***************************************************************************)
UsersRefs(users, selectedUser, isLoading, errorMessage) ==
  [users |-> users, selectedUser |-> selectedUser, loading |-> isLoading,
   errorMessage |-> errorMessage]

\* The page is on screen.
UsersMounted == route.name = "users"

\* A fetchUsers call suspended at its fetch, with the token it sent.
UsersCall(bearer) == [fn |-> "fetchUsers", bearer |-> bearer]

UsersRequest(bearer) == [method |-> "GET", path |-> "/api/Users", bearer |-> bearer]

UsersHttpMessage == "users: HTTP 500"

\* fetchUsers, lines 1395-1421, up to the fetch: nothing when a load is
\* running; the Authorization header only when the store holds a token.
FetchUsers(fx) ==
  IF fx.grid.loading THEN fx
  ELSE Spawn(Send([fx EXCEPT !.grid.loading = TRUE, !.grid.errorMessage = ""],
                  UsersRequest(IF NoToken(token) THEN NULL ELSE token)),
             UsersCall(IF NoToken(token) THEN NULL ELSE token))

\* watch(users), lines 1812-1825: the selection follows the list.
WatchUsers(g) ==
  IF g.selectedUser = None THEN g
  ELSE IF HasRow(g.users, g.selectedUser[1].id)
       THEN [g EXCEPT !.selectedUser = FindById(g.users, g.selectedUser[1].id)]
       ELSE [g EXCEPT !.selectedUser = None]

\* watch(auth.token), lines 1791-1810, for the token tok replacing prev.
WatchToken(fx, tok, prev) ==
  LET fetched == IF ~NoToken(tok) /\ tok # prev THEN FetchUsers(fx) ELSE fx
  IN IF NoToken(tok)
     THEN [fetched EXCEPT !.grid.users = <<>>, !.grid.selectedUser = None]
     ELSE fetched

CommitUsers(fx, ev, fn) ==
  /\ grid' = fx.grid
  /\ calls' = fx.calls
  /\ step' = [Step(ev, fn, 0, NoRow, fx.requests, fx.toasts) EXCEPT
                !.events = step.events + IF ev \in UserEvents THEN 1 ELSE 0]
  /\ view' = view

\* The page as onMounted (lines 1783-1789) leaves it for a signed-in
\* administrator: the first fetchUsers is at its fetch.
InitUsers ==
  /\ storageOk = TRUE
  /\ slot = TokAdmin
  /\ token = TokAdmin
  /\ user = UserOfToken(TokAdmin)
  /\ loading = FALSE
  /\ error = None
  /\ initialized = TRUE
  /\ inflight = [op \in Ops |-> 0]
  /\ last = Event("load", "", FALSE, "", "", FALSE, NoHeaders, NoResponse)
  /\ probe = ProbeIdle
  /\ view = ViewIdle
  /\ route = Route("users", "/users", None)
  /\ grid = UsersRefs(<<>>, None, TRUE, "")
  /\ calls = <<UsersCall(TokAdmin)>>
  /\ step = Step("start", "onMounted", 0, NoRow, <<UsersRequest(TokAdmin)>>, <<>>)

\* handleRefreshClick, lines 1446-1450.
HandleRefreshClick ==
  /\ CanStart
  /\ UsersMounted
  /\ CommitUsers(FetchUsers(GridBegin), "edit", "handleRefreshClick")
  /\ UNCHANGED <<session, probe, route>>

\* The table's v-model:selection, line 1837.
SelectUser ==
  \E i \in 1..Len(grid.users) :
    /\ CanStart
    /\ UsersMounted
    /\ CommitUsers([GridBegin EXCEPT !.grid.selectedUser = Some(grid.users[i])],
                   "select", "selectedUser")
    /\ UNCHANGED <<session, probe, route>>

\* fetchUsers from the response on, lines 1422-1443. Nothing looks at the
\* token again.
FetchUsersReturn ==
  \E i \in 1..Len(calls) : \E reply \in ListReplies("users") :
    LET fx == GridResume(i)
        g == IF Failed(reply)
             THEN [fx.grid EXCEPT
                     !.errorMessage = IF ~reply.net THEN FetchErrorMessage
                                      ELSE UsersHttpMessage,
                     !.users = <<>>]
             ELSE [fx.grid EXCEPT
                     !.users = reply.rows,
                     !.selectedUser =
                       IF @ # None /\ ~HasRow(reply.rows, @[1].id) THEN None ELSE @]
    IN /\ CommitUsers([fx EXCEPT !.grid = [WatchUsers(g) EXCEPT !.loading = FALSE]],
                      "reply", "fetchUsers")
       /\ UNCHANGED <<session, probe, route>>

\* App.vue handleLogoutClick up to the fetch of auth.logout: the button is
\* shown to a signed-in user and disabled while the store is busy.
HandleLogoutClick ==
  /\ user # None
  /\ ~loading
  /\ inflight["logout"] = 0
  /\ LogoutStart

\* auth.logout settles: applyToken(null) fires the view's watch of the token;
\* handleLogoutClick then pushes the home route unless logout threw.
HandleLogoutClickReturn ==
  \E response \in LogoutReplies :
    /\ LogoutSettle(response)
    /\ LET watched == IF token' # token THEN WatchToken(GridBegin, token', token)
                      ELSE GridBegin
       IN CommitUsers(watched, "reply", "logout")
    /\ route' = IF Request(response).threw THEN route ELSE Route("home", "/", None)

NextUsers ==
  \/ HandleRefreshClick
  \/ SelectUser
  \/ FetchUsersReturn
  \/ HandleLogoutClick
  \/ HandleLogoutClickReturn

SpecUsers == InitUsers /\ [][NextUsers]_vars

\* C27: in the mounted users view, whenever the session token is absent the
\* list of users is empty and no user is selected.
C27_NoUsersWithoutToken ==
  (UsersMounted /\ NoToken(token)) => (grid.users = <<>> /\ grid.selectedUser = None)

\* The failing input of C27: logout has cleared the token, and the reply to a
\* fetch sent with the old token has then filled the list of the mounted view.
C27_OldFetchFillsList ==
  /\ UsersMounted
  /\ NoToken(token)
  /\ last.ev = "return" /\ last.op = "logout"
  /\ step.ev = "reply" /\ step.fn = "fetchUsers"
  /\ calls = <<>>
  /\ grid.users # <<>>

(***************************************************************************)
(* The router (src/src/router/index.ts) with the views that navigate after  *)
(* a session operation: LoginView (src/unnamed/part_002), RegisterView      *)
(* (src/unnamed/part_000) and App.vue's logout button                       *)
(* (src/src/views/CategoryView.vue from line 734).                          *)
(***************************************************************************)

\* The route records, lines 13-72: name and path.
RouteTable ==
  { <<"home", "/">>, <<"about", "/about">>, <<"categories", "/categories">>,
    <<"products", "/products">>, <<"orders", "/orders">>, <<"users", "/users">>,
    <<"OrderDetail", "/orderdetail">>, <<"login", "/login">>,
    <<"register", "/register">> }

\* meta of the route records.
RequiresAuth(name) == name \in {"categories", "products", "orders", "users"}
RequiresAdmin(name) == name = "users"
RequiresGuest(name) == name \in {"login", "register"}

\* The records whose views show or edit back-office data.
BackOfficeRoutes == {"categories", "products", "orders", "OrderDetail", "users"}

\* router.resolve of a path: the record with that path, or none.
ResolvePath(path) ==
  IF \E r \in RouteTable : r[2] = path
    THEN Route((CHOOSE r \in RouteTable : r[2] = path)[1], path, None)
    ELSE Route("", path, None)

\* The redirect parameters a login location can carry.
RedirectValues == {None, Some("/orders"), Some("/users"), Some("/orderdetail"), Some(" ")}

\* The locations a user can ask for: a link, or an address typed in.
Targets ==
  {Route(r[1], r[2], None) : r \in RouteTable}
    \cup {Route("login", "/login", q) : q \in RedirectValues}

\* auth.isAuthenticated and auth.role, auth.ts lines 270-272, of a user.
IsAuthenticated(u) == u # None
RoleOf(u) == IF u = None THEN "" ELSE u[1].role

\* The guard that lets everybody through.
GuardOpen(to, u) == to

\* The decisions of beforeEach, lines 81-99, for the location to and the
\* user u: the location the guard passes on.
Guard(to, u) ==
  IF RequiresAuth(to.name) /\ ~IsAuthenticated(u)
    THEN Route("login", "/login", Some(to.path))
  ELSE IF RequiresAdmin(to.name) /\ RoleOf(u) # "admin"
    THEN Route("home", "/", None)
  ELSE IF RequiresGuest(to.name) /\ IsAuthenticated(u)
    THEN Route("home", "/", None)
  ELSE to

\* A navigation: a location the guard redirects to passes the guard again.
Navigated(to, u) ==
  LET first == Guard(to, u)
  IN IF first = to THEN to ELSE Guard(first, u)

\* String.prototype.trim().length > 0 of a query parameter.
BlankStrings == {"", " "}

\* LoginView redirectPath, part_002 lines 73-76.
RedirectPath(r) ==
  IF r.redirect # None /\ r.redirect[1] \notin BlankStrings THEN r.redirect[1] ELSE "/"

RouteStep(ev, fn, from, to) ==
  [Step(ev, fn, 0, NoRow, <<>>, <<>>) EXCEPT !.before = from, !.newValue = to]

InitRoute ==
  /\ storageOk = TRUE
  /\ slot \in {NULL, TokAdmin, TokUser}
  /\ token = LoadStoredToken(slot, storageOk)
  /\ user = None
  /\ loading = FALSE
  /\ error = None
  /\ initialized = FALSE
  /\ inflight = [op \in Ops |-> 0]
  /\ last = Event("load", "", FALSE, "", "", FALSE, NoHeaders, NoResponse)
  /\ probe = ProbeIdle
  /\ view = ViewIdle
  /\ grid = GridIdle
  /\ calls = <<>>
  /\ step = StepIdle
  /\ route = START_LOCATION

\* router.push of a location: beforeEach, lines 75-100. The guard calls
\* initialize, whose body has no await, when the store is neither initialized
\* nor busy.
BeforeEach ==
  \E to \in Targets :
    /\ IF ~initialized /\ ~loading
         THEN /\ error' = None
              /\ user' = IF ~NoToken(token) THEN UserOfToken(token) ELSE user
              /\ loading' = FALSE
              /\ initialized' = TRUE
              /\ last' = Event("initialize", "", FALSE, "", "", ~NoToken(token), NoHeaders,
                               NoResponse)
         ELSE UNCHANGED <<user, loading, error, initialized, last>>
    /\ route' = Navigated(to, user')
    /\ step' = RouteStep("navigate", "beforeEach", route, to)
    /\ UNCHANGED <<token, slot, storageOk, inflight, probe, view, grid, calls>>

\* LoginView handleSubmit up to the fetch of auth.login, part_002 lines 88-91;
\* the button is disabled while the store is busy.
HandleSubmitLogin ==
  /\ route.name = "login"
  /\ ~loading
  /\ LoginStart

\* handleSubmit once auth.login has settled, lines 91-99: router.replace of
\* redirectPath, read from the current location, unless login threw.
HandleSubmitLoginReturn ==
  \E response \in AuthResponses :
    /\ AuthSettle("login", response)
    /\ LET to == ResolvePath(RedirectPath(route))
       IN IF Request(response).threw
            THEN /\ route' = route
                 /\ step' = RouteStep("reply", "LoginView.handleSubmit", route, route)
            ELSE /\ route' = Navigated(to, user')
                 /\ step' = RouteStep("replace", "LoginView.handleSubmit", route, to)
    /\ UNCHANGED <<view, grid, calls>>

\* RegisterView handleSubmit, part_000: auth.register, then the home route.
HandleSubmitRegister ==
  /\ route.name = "register"
  /\ ~loading
  /\ RegisterStart

HandleSubmitRegisterReturn ==
  \E response \in AuthResponses :
    /\ AuthSettle("register", response)
    /\ LET to == Route("home", "/", None)
       IN IF Request(response).threw
            THEN /\ route' = route
                 /\ step' = RouteStep("reply", "RegisterView.handleSubmit", route, route)
            ELSE /\ route' = Navigated(to, user')
                 /\ step' = RouteStep("replace", "RegisterView.handleSubmit", route, to)
    /\ UNCHANGED <<view, grid, calls>>

\* App.vue handleLogoutClick once auth.logout has settled: the home route
\* unless logout threw.
HandleLogoutClickRouted ==
  \E response \in LogoutReplies :
    /\ LogoutSettle(response)
    /\ LET to == Route("home", "/", None)
       IN IF Request(response).threw
            THEN /\ route' = route
                 /\ step' = RouteStep("reply", "handleLogoutClick", route, route)
            ELSE /\ route' = Navigated(to, user')
                 /\ step' = RouteStep("navigate", "handleLogoutClick", route, to)
    /\ UNCHANGED <<view, grid, calls>>

NextRoute ==
  \/ BeforeEach
  \/ HandleSubmitLogin
  \/ HandleSubmitLoginReturn
  \/ HandleSubmitRegister
  \/ HandleSubmitRegisterReturn
  \/ HandleLogoutClick
  \/ HandleLogoutClickRouted

SpecRoute == InitRoute /\ [][NextRoute]_vars

\* A navigation has just ended.
NavigationEnded == step.ev \in {"navigate", "replace"}

\* C21: a navigation ends on a route that requires authentication only with
\* an authenticated session, and on the users route only with the role admin;
\* an unauthenticated navigation to a route that requires authentication ends
\* on the login route whose redirect parameter is the requested path; and a
\* successful login asks for the path of the redirect parameter and ends there
\* when the session is allowed to.
C21_GuardGatesAndLoginReturns ==
  NavigationEnded =>
    /\ RequiresAuth(route.name) => IsAuthenticated(user)
    /\ route.name = "users" => RoleOf(user) = "admin"
    /\ (RequiresAuth(step.newValue.name) /\ ~IsAuthenticated(user))
         => route = Route("login", "/login", Some(step.newValue.path))
    /\ (/\ step.ev = "replace" /\ step.fn = "LoginView.handleSubmit"
        /\ step.before.redirect # None
        /\ step.before.redirect[1] \notin BlankStrings)
         => /\ step.newValue.path = step.before.redirect[1]
            /\ (/\ IsAuthenticated(user)
                /\ (RequiresAdmin(step.newValue.name) => RoleOf(user) = "admin"))
                 => route.path = step.before.redirect[1]

\* A login from the login route reached by a redirect has returned there.
C21_Witness ==
  /\ step.ev = "replace" /\ step.fn = "LoginView.handleSubmit"
  /\ step.before = Route("login", "/login", Some("/orders"))
  /\ route = Route("orders", "/orders", None)
  /\ IsAuthenticated(user)

\* C28: a navigation never ends on a route that shows or edits back-office
\* data (categories, products, orders, order detail, users) while the
\* session is unauthenticated.
C28_BackOfficeNeedsSession ==
  (NavigationEnded /\ route.name \in BackOfficeRoutes) => IsAuthenticated(user)

\* The failing input of C28: a visitor without a session has opened the
\* order detail route.
C28_OrderDetailWithoutSession ==
  /\ step.ev = "navigate" /\ step.fn = "beforeEach"
  /\ step.newValue.name = "OrderDetail"
  /\ route.name = "OrderDetail"
  /\ NoToken(token)
  /\ ~IsAuthenticated(user)

(***************************************************************************)
(* Claims about the inline edits and the dialog of OrderDetailView, checked *)
(* under SpecOrder.                                                        *)
(***************************************************************************)

\* The step just taken issued the PUT of an inline edit of the product: the
\* edit itself, or the return of the option list it waited for.
ProductEditSent ==
  /\ \/ step.ev = "edit" /\ step.fn = "productId"
     \/ step.ev = "return" /\ step.fn = "ensureProductOptions"
  /\ step.requests # <<>>
  /\ IsLineRequest(step.requests[Len(step.requests)])

Updates(cs, id) ==
  {k \in 1..Len(cs) : cs[k].fn = "persistDetailRowUpdate" /\ cs[k].next.id = id}

\* The step about to be taken is the reply to an update.
UpdateReplied == step'.fn = "persistDetailRowUpdate" /\ step'.ev \in {"failed", "saved"}

\* The update whose reply the step handles.
RepliedTo(k) ==
  /\ k \in Updates(calls, step'.rowId)
  /\ calls' = Remove(calls, k)
  /\ calls[k].prev = step'.before

\* What the reply to the update c can say of the row: its snapshot when it
\* failed, else the row of its body or, without one, the row that was sent.
SaidByReply(c) ==
  IF step'.ev = "failed" THEN {c.prev}
  ELSE {c.next, [c.next EXCEPT !.rowSum = @ + 1]}

IsLineCreate(r) == r.path = "/api/OrderDetail" /\ r.method = "POST"

\* The submissions of the dialog that await the reply to their line request.
LineSubmissions(cs) ==
  {k \in 1..Len(cs) : cs[k].fn = "handleSubmitDetail" /\ cs[k].stage = "fetch"}

\* C24: no step issues more than one POST /api/OrderDetail, and at most one
\* submission of the dialog awaits the reply to its line request.
C24_OneLineRequestPerSubmission ==
  /\ Len(SelectSeq(step.requests, IsLineCreate)) <= 1
  /\ Cardinality(LineSubmissions(calls)) <= 1

\* The failing input of C24: the save button of the dialog of a draft order
\* was pressed twice while the order head was being created; when the head
\* arrived both submissions sent the same new line.
C24_DuplicateLineCreated ==
  /\ step.ev = "created" /\ step.fn = "ensureOrderCreated"
  /\ Len(SelectSeq(step.requests, IsLineCreate)) = 2
  /\ SelectSeq(step.requests, IsLineCreate)[1] = SelectSeq(step.requests, IsLineCreate)[2]
  /\ Cardinality(LineSubmissions(calls)) = 2

\* C26: when the replies to the two updates of one row that were in flight
\* together are both failures, arrive one after the other and leave no update
\* of the row in flight, the row is again the row the first of the two edits
\* found. The second edit is the one whose snapshot is the row the other sent.
C26_FailedEditsRestoreConfirmedRow ==
  [][(/\ step.fn = "persistDetailRowUpdate" /\ step.ev = "failed"
      /\ UpdateReplied /\ step'.ev = "failed"
      /\ step'.rowId = step.rowId
      /\ Cardinality(Updates(calls, step'.rowId)) = 1
      /\ FindById(view'.details, step'.rowId) # None)
       => \E k \in Updates(calls, step'.rowId) :
            /\ RepliedTo(k)
            /\ FindById(view'.details, step'.rowId)[1] =
                 IF step.before = calls[k].next THEN calls[k].prev ELSE step.before]_vars

\* The failing input of C26: the edit of line 2 from quantity 1 to 2 has failed
\* and the line is back at quantity 1, while the edit made on top of it (2 to
\* 5) is still in flight with the never confirmed quantity 2 as its snapshot.
C26_SnapshotNeverConfirmed ==
  /\ EditFailed
  /\ step.before = OrderDetailRow(2, 7, 2, "Cake", 1, 4, 4)
  /\ FindById(view.details, 2) = Some(step.before)
  /\ \E k \in Updates(calls, 2) :
       /\ calls[k].prev = OrderDetailRow(2, 7, 2, "Cake", 2, 4, 8)
       /\ calls[k].next.qty = 5

(***************************************************************************)
(* The lines grid of OrderDetailView with the deletion of a line: the mount *)
(* of the view, the inline edits, the selection and performDeleteDetail     *)
(* (filter.ts lines 1292-1357); the dialog stays closed.                    *)
(***************************************************************************)

\* The replies to DELETE /api/OrderDetail/{id}: only the status is read.
DeleteReplies == Failures \cup {Reply(TRUE, TRUE, None, <<>>, <<>>)}

RECURSIVE WithoutId(_, _)
\* details.value.filter((item) => item.id !== detailId)
WithoutId(rows, id) ==
  IF rows = <<>> THEN <<>>
  ELSE IF Head(rows).id = id THEN WithoutId(Tail(rows), id)
  ELSE <<Head(rows)>> \o WithoutId(Tail(rows), id)

\* The accept of the confirmation asked by requestDeleteDetail (lines
\* 1292-1315): performDeleteDetail up to its fetch, lines 1317-1330.
PerformDeleteDetail ==
  /\ CanStart
  /\ ~view.detailDialogVisible
  /\ Commit(IF view.order = None \/ view.selectedDetail = None \/ view.deletingDetail
              THEN Begin
              ELSE Spawn(Send([Begin EXCEPT !.view.deletingDetail = TRUE],
                              Fetch("DELETE", "/api/OrderDetail/{id}",
                                    view.selectedDetail[1].id, 0, NoRow)),
                         Call("performDeleteDetail", "fetch", 0, view.selectedDetail[1],
                              NoRow, FALSE, <<>>, None)),
            "delete", "performDeleteDetail",
            IF view.selectedDetail = None THEN 0 ELSE view.selectedDetail[1].id,
            IF view.selectedDetail = None THEN NoRow ELSE view.selectedDetail[1])

\* performDeleteDetail from its reply on, lines 1332-1356.
PerformDeleteDetailReturn ==
  \E i \in 1..Len(calls) : \E reply \in DeleteReplies :
    /\ calls[i].fn = "performDeleteDetail"
    /\ LET fx == Resume(i)
           detailId == calls[i].next.id
       IN Commit(IF Failed(reply)
                   THEN Show([fx EXCEPT !.view.deletingDetail = FALSE],
                             Toast("error", FailureMessage(reply)))
                   ELSE Show([fx EXCEPT !.view.details = WithoutId(@, detailId),
                                        !.view.selectedDetail = None,
                                        !.view.deletingDetail = FALSE],
                             Toast("success", "deleted")),
                 IF Failed(reply) THEN "failed" ELSE "deleted", "performDeleteDetail",
                 detailId, calls[i].next)

NextLines ==
  \/ RefreshOrderReturn
  \/ RefreshDetailsReturn
  \/ EnsureProductOptionsReturn
  \/ HandleDetailCellEdit
  \/ PersistReturn
  \/ SelectDetail
  \/ PerformDeleteDetail
  \/ PerformDeleteDetailReturn

SpecLines == InitOrder /\ [][NextLines]_vars

\* C30: with a loaded order, after a step that changed the list of lines
\* locally the header's totalPrice is the sum of rowSum over the lines shown.
C30_TotalIsSumOfLines ==
  [][(/\ view'.order # None
      /\ view'.details # view.details
      /\ \/ step'.ev = "edit"
         \/ step'.fn = "persistDetailRowUpdate" /\ step'.ev \in {"failed", "saved"}
         \/ step'.fn = "performDeleteDetail" /\ step'.ev = "deleted")
       => view'.order[1].totalPrice = Some(SumRowSum(view'.details))]_vars

\* The failing input of C30: line 1 (rowSum 20) of order 7 has been deleted
\* after an edit of line 2 had set the total to 28; the list holds line 2
\* alone (rowSum 8) and the header still says 28.
C30_TotalStaleAfterDelete ==
  /\ step.fn = "performDeleteDetail" /\ step.ev = "deleted"
  /\ view.order # None /\ view.order[1].id = 7
  /\ view.details = <<OrderDetailRow(2, 7, 2, "Cake", 2, 4, 8)>>
  /\ view.order[1].totalPrice = Some(28)

====
